---- MODULE Spec2Model ----
(***************************************************************************)
(* Corpus normalisation and noise augmentation of rgilks/speako (ml/).     *)
(*                                                                         *)
(* A Python string is a sequence of one-character strings, a list is a     *)
(* sequence, a dict with the keys text/label/source is a record.           *)
(***************************************************************************)
EXTENDS Integers, Sequences, FiniteSets, TLC

VARIABLES
  stm_pc, stm_content, stm_entries,                                 \* a call of parse_stm_file
  chunk_pc, chunk_doc, chunk_min, chunk_max, chunk_valid, chunk_out, \* a call of chunk_text
  aug_pc, aug_text, aug_words, aug_i, aug_new_words,                 \* a call of augment_text_with_noise
  aug_r, aug_idx, aug_action, aug_result, aug_prev, aug_calls,
  asm_pc, asm_cfg, asm_env,                                          \* a run of train_model / train_deberta
  asm_stm_parsed, asm_eval_entries, asm_all, asm_stm_test,
  asm_combined, asm_aug_in, asm_dataset, asm_train, asm_eval,
  asm_post_eval, asm_error, asm_diag,
  lvl_pc, lvl_level, lvl_ids,                                        \* a level string given to each component
  wi_pc, wi_file, wi_returned,                                       \* a call of parse_wi_corpus
  uc_pc, uc_args, uc_lib, uc_k, uc_dataset, uc_entries,              \* a call of load_universal_cefr
  uc_all_entries, uc_log, uc_result,
  dup_pc, dup_fn, dup_input, dup_shared, dup_copy                    \* a helper of cefr_utils and its copy

stmVars == <<stm_pc, stm_content, stm_entries>>
chunkVars == <<chunk_pc, chunk_doc, chunk_min, chunk_max, chunk_valid, chunk_out>>
augVars == <<aug_pc, aug_text, aug_words, aug_i, aug_new_words,
             aug_r, aug_idx, aug_action, aug_result, aug_prev, aug_calls>>
asmVars == <<asm_pc, asm_cfg, asm_env, asm_stm_parsed, asm_eval_entries, asm_all,
             asm_stm_test, asm_combined, asm_aug_in, asm_dataset, asm_train,
             asm_eval, asm_post_eval, asm_error, asm_diag>>
lvlVars == <<lvl_pc, lvl_level, lvl_ids>>
wiVars == <<wi_pc, wi_file, wi_returned>>
ucVars == <<uc_pc, uc_args, uc_lib, uc_k, uc_dataset, uc_entries,
            uc_all_entries, uc_log, uc_result>>
dupVars == <<dup_pc, dup_fn, dup_input, dup_shared, dup_copy>>
libVars == <<lvlVars, wiVars, ucVars, dupVars>>
vars == <<stmVars, chunkVars, augVars, asmVars, libVars>>

\* the variables of an operation that a specification does not exercise
StmIdle == stm_pc = "off" /\ stm_content = <<>> /\ stm_entries = <<>>

ChunkIdle ==
  /\ chunk_pc = "off" /\ chunk_doc = <<>> /\ chunk_min = 0 /\ chunk_max = 0
  /\ chunk_valid = <<>> /\ chunk_out = <<>>

AugIdle ==
  /\ aug_pc = "off" /\ aug_text = <<>> /\ aug_words = <<>> /\ aug_i = 0
  /\ aug_new_words = <<>> /\ aug_r = -1 /\ aug_idx = -1 /\ aug_action = "none"
  /\ aug_result = <<>> /\ aug_prev = <<>> /\ aug_calls = 0

AsmIdle ==
  /\ asm_pc = "off" /\ asm_cfg = <<>> /\ asm_env = <<>>
  /\ asm_stm_parsed = <<>> /\ asm_eval_entries = <<>> /\ asm_all = <<>>
  /\ asm_stm_test = <<>> /\ asm_combined = <<>> /\ asm_aug_in = <<>>
  /\ asm_dataset = <<>> /\ asm_train = <<>> /\ asm_eval = <<>>
  /\ asm_post_eval = <<>> /\ asm_error = "none" /\ asm_diag = <<>>

LvlIdle == lvl_pc = "off" /\ lvl_level = <<>> /\ lvl_ids = <<>>

WiIdle == wi_pc = "off" /\ wi_file = <<>> /\ wi_returned = <<>>

UcIdle ==
  /\ uc_pc = "off" /\ uc_args = <<>> /\ uc_lib = FALSE /\ uc_k = 0
  /\ uc_dataset = <<>> /\ uc_entries = <<>> /\ uc_all_entries = <<>>
  /\ uc_log = <<>> /\ uc_result = <<>>

DupIdle ==
  /\ dup_pc = "off" /\ dup_fn = "none" /\ dup_input = <<>>
  /\ dup_shared = <<>> /\ dup_copy = <<>>

LibIdle == LvlIdle /\ WiIdle /\ UcIdle /\ DupIdle

(***************************************************************************)
(* Python string primitives                                                *)
(***************************************************************************)
\* the ASCII characters str.isspace() accepts: blank, \t \n \v \f \r and the
\* separators 0x1c..0x1f (the last five written as the characters themselves)
Whitespace == {" ", "\t", "\n", "\r", "\f", "", "", "", "", ""}

\* str.strip(chars): drop the leading and trailing characters that are in cs
RECURSIVE LStripChars(_, _)
LStripChars(s, cs) ==
  IF s # <<>> /\ Head(s) \in cs THEN LStripChars(Tail(s), cs) ELSE s

RECURSIVE RStripChars(_, _)
RStripChars(s, cs) ==
  IF s # <<>> /\ s[Len(s)] \in cs
  THEN RStripChars(SubSeq(s, 1, Len(s) - 1), cs)
  ELSE s

StripChars(s, cs) == RStripChars(LStripChars(s, cs), cs)

\* str.strip()
Strip(s) == StripChars(s, Whitespace)

\* str.split(c) for a one-character separator: empty pieces are kept
SplitOn(s, c) ==
  LET seps == SelectSeq([i \in 1..Len(s) |-> i], LAMBDA i : s[i] = c)
      n == Len(seps)
  IN [k \in 1..(n + 1) |->
        SubSeq(s, IF k = 1 THEN 1 ELSE seps[k - 1] + 1,
                  IF k = n + 1 THEN Len(s) ELSE seps[k] - 1)]

\* str.split(): split on runs of whitespace, no empty piece
SplitWords(s) ==
  LET positions == [i \in 1..Len(s) |-> i]
      starts == SelectSeq(positions, LAMBDA i :
                  s[i] \notin Whitespace /\ (i = 1 \/ s[i - 1] \in Whitespace))
      ends == SelectSeq(positions, LAMBDA i :
                s[i] \notin Whitespace /\ (i = Len(s) \/ s[i + 1] \in Whitespace))
  IN [k \in 1..Len(starts) |-> SubSeq(s, starts[k], ends[k])]

\* sep.join(parts)
RECURSIVE Join(_, _)
Join(parts, sep) ==
  IF parts = <<>> THEN <<>>
  ELSE IF Len(parts) = 1 THEN parts[1]
  ELSE parts[1] \o sep \o Join(Tail(parts), sep)

\* str.startswith(p)
StartsWith(s, p) == Len(s) >= Len(p) /\ SubSeq(s, 1, Len(p)) = p

\* str.upper() on the ASCII letters
LowerLetters ==
  <<"a", "b", "c", "d", "e", "f", "g", "h", "i", "j", "k", "l", "m",
    "n", "o", "p", "q", "r", "s", "t", "u", "v", "w", "x", "y", "z">>

UpperLetters ==
  <<"A", "B", "C", "D", "E", "F", "G", "H", "I", "J", "K", "L", "M",
    "N", "O", "P", "Q", "R", "S", "T", "U", "V", "W", "X", "Y", "Z">>

UpperChar(c) ==
  IF \E k \in 1..26 : LowerLetters[k] = c
  THEN UpperLetters[CHOOSE k \in 1..26 : LowerLetters[k] = c]
  ELSE c

Upper(s) == [k \in 1..Len(s) |-> UpperChar(s[k])]

\* str.replace(c, "") for a one-character c
RemoveChar(s, c) == SelectSeq(s, LAMBDA x : x # c)

\* list * k
Repeat(xs, k) ==
  IF k <= 0 THEN <<>> ELSE [i \in 1..(Len(xs) * k) |-> xs[((i - 1) % Len(xs)) + 1]]

\* concatenation of a sequence of sequences (list.extend in a loop)
RECURSIVE Flatten(_)
Flatten(ss) == IF ss = <<>> THEN <<>> ELSE Head(ss) \o Flatten(Tail(ss))

(***************************************************************************)
(* Label vocabulary                                                        *)
(***************************************************************************)
LABEL2ID ==
  (<<"A", "1">> :> 0) @@ (<<"A", "2">> :> 1) @@ (<<"B", "1">> :> 2) @@
  (<<"B", "2">> :> 3) @@ (<<"C", "1">> :> 4) @@ (<<"C", "2">> :> 5)

\* the literal list of parse_stm_file: the six codes and the bare "C"
StmLevelTokens == DOMAIN LABEL2ID \cup {<<"C">>}

(***************************************************************************)
(* parse_stm_file                                                          *)
(***************************************************************************)
\* re.search(r"<[^>]+>", line) from position i on: <<start, end>> of the
\* leftmost match (1-based, inclusive), <<0, 0>> when there is none
RECURSIVE SearchGroupFrom(_, _)
SearchGroupFrom(line, i) ==
  IF i > Len(line) THEN <<0, 0>>
  ELSE IF /\ line[i] = "<"
          /\ i + 1 <= Len(line)
          /\ line[i + 1] # ">"
          /\ \E j \in (i + 2)..Len(line) : line[j] = ">"
       THEN <<i, CHOOSE j \in (i + 2)..Len(line) :
                   line[j] = ">" /\ \A k \in (i + 2)..(j - 1) : line[k] # ">">>
       ELSE SearchGroupFrom(line, i + 1)

\* the search that returns the last group of the line instead of the first
SearchGroupLast(line) ==
  LET starts == {i \in 1..Len(line) : SearchGroupFrom(line, i)[1] = i}
  IN IF starts = {} THEN <<0, 0>>
     ELSE SearchGroupFrom(line, CHOOSE i \in starts : \A k \in starts : k <= i)

SearchGroup(line) == SearchGroupFrom(line, 1)

\* the loop without its break: the last level token wins
RECURSIVE ScanPartsNoBreak(_)
ScanPartsNoBreak(parts) ==
  IF parts = <<>> THEN <<>>
  ELSE LET part == Strip(parts[Len(parts)])
       IN IF part \in StmLevelTokens
          THEN (IF part = <<"C">> THEN <<"C", "1">> ELSE part)
          ELSE ScanPartsNoBreak(SubSeq(parts, 1, Len(parts) - 1))

\* the loop over parts: the first stripped part that is a level token,
\* with "C" mapped to "C1"; <<>> stands for None
RECURSIVE ScanParts(_)
ScanParts(parts) ==
  IF parts = <<>> THEN <<>>
  ELSE LET part == Strip(Head(parts))
       IN IF part \in StmLevelTokens
          THEN (IF part = <<"C">> THEN <<"C", "1">> ELSE part)
          ELSE ScanParts(Tail(parts))

\* the body of the loop over lines: the records one line appends
ParseStmLine(raw) ==
  LET line == Strip(raw)
      m == SearchGroup(line)
      label_str == SubSeq(line, m[1], m[2])
      text == Strip(SubSeq(line, m[2] + 1, Len(line)))
      parts == SplitOn(StripChars(label_str, {"<", ">"}), ",")
      cefr == ScanParts(parts)
  IN IF line = <<>> \/ StartsWith(line, <<";", ";">>) THEN <<>>
     ELSE IF m = <<0, 0>> THEN <<>>
     ELSE IF text = <<>> THEN <<>>
     ELSE IF cefr # <<>> /\ cefr \in DOMAIN LABEL2ID
          THEN <<[text |-> text, label |-> LABEL2ID[cefr], source |-> "stm"]>>
          ELSE <<>>

\* the loop over lines: entries, in line order
ParseStmLines(lines) ==
  LET per_line == [k \in 1..Len(lines) |-> ParseStmLine(lines[k])]
      appended == SelectSeq(per_line, LAMBDA rs : rs # <<>>)
  IN [k \in 1..Len(appended) |-> appended[k][1]]

parse_stm_file(content) == ParseStmLines(SplitOn(content, "\n"))

(***************************************************************************)
(* chunk_text                                                              *)
(***************************************************************************)
SentenceEnd == {".", "!", "?"}

\* re.split(r"(?<=[.!?])\s+", text): cut at every run of whitespace that
\* directly follows an end-of-sentence mark; the run itself is removed
RECURSIVE ReSplitSentences(_)
ReSplitSentences(text) ==
  LET cuts == {i \in 2..Len(text) : text[i] \in Whitespace /\ text[i - 1] \in SentenceEnd}
  IN IF cuts = {} THEN <<text>>
     ELSE LET i == CHOOSE c \in cuts : \A d \in cuts : c <= d
              rest == LStripChars(SubSeq(text, i, Len(text)), Whitespace)
          IN <<SubSeq(text, 1, i - 1)>> \o ReSplitSentences(rest)

\* the loop that tests the length before the sentence is counted
RECURSIVE ChunkLoopLateFlush(_, _, _, _, _)
ChunkLoopLateFlush(chunks, current_chunk, current_len, valid_chunks, max_words) ==
  IF chunks = <<>>
  THEN IF current_chunk # <<>>
       THEN Append(valid_chunks, Join(current_chunk, <<" ">>))
       ELSE valid_chunks
  ELSE LET chunk == Head(chunks)
           words == SplitWords(chunk)
           flush == current_len > max_words /\ current_chunk # <<>>
       IN IF words = <<>>
          THEN ChunkLoopLateFlush(Tail(chunks), current_chunk, current_len, valid_chunks, max_words)
          ELSE ChunkLoopLateFlush(Tail(chunks),
                  Append(IF flush THEN <<>> ELSE current_chunk, chunk),
                  (IF flush THEN 0 ELSE current_len) + Len(words),
                  IF flush
                  THEN Append(valid_chunks, Join(current_chunk, <<" ">>))
                  ELSE valid_chunks,
                  max_words)

\* the loop that starts a new chunk at every sentence
RECURSIVE ChunkLoopEagerFlush(_, _, _, _, _)
ChunkLoopEagerFlush(chunks, current_chunk, current_len, valid_chunks, max_words) ==
  IF chunks = <<>>
  THEN IF current_chunk # <<>>
       THEN Append(valid_chunks, Join(current_chunk, <<" ">>))
       ELSE valid_chunks
  ELSE LET chunk == Head(chunks)
           words == SplitWords(chunk)
           flush == current_chunk # <<>>
       IN IF words = <<>>
          THEN ChunkLoopEagerFlush(Tail(chunks), current_chunk, current_len, valid_chunks, max_words)
          ELSE ChunkLoopEagerFlush(Tail(chunks),
                  Append(IF flush THEN <<>> ELSE current_chunk, chunk),
                  (IF flush THEN 0 ELSE current_len) + Len(words),
                  IF flush
                  THEN Append(valid_chunks, Join(current_chunk, <<" ">>))
                  ELSE valid_chunks,
                  max_words)

\* the loop with the flush that forgets to empty current_chunk
RECURSIVE ChunkLoopNoReset(_, _, _, _, _)
ChunkLoopNoReset(chunks, current_chunk, current_len, valid_chunks, max_words) ==
  IF chunks = <<>>
  THEN IF current_chunk # <<>>
       THEN Append(valid_chunks, Join(current_chunk, <<" ">>))
       ELSE valid_chunks
  ELSE LET chunk == Head(chunks)
           words == SplitWords(chunk)
           flush == current_len + Len(words) > max_words /\ current_chunk # <<>>
       IN IF words = <<>>
          THEN ChunkLoopNoReset(Tail(chunks), current_chunk, current_len, valid_chunks,
                                max_words)
          ELSE ChunkLoopNoReset(Tail(chunks),
                                Append(current_chunk, chunk),
                                (IF flush THEN 0 ELSE current_len) + Len(words),
                                IF flush
                                THEN Append(valid_chunks, Join(current_chunk, <<" ">>))
                                ELSE valid_chunks,
                                max_words)

\* the for loop of chunk_text followed by the final flush: valid_chunks
RECURSIVE ChunkLoop(_, _, _, _, _)
ChunkLoop(chunks, current_chunk, current_len, valid_chunks, max_words) ==
  IF chunks = <<>>
  THEN IF current_chunk # <<>>
       THEN Append(valid_chunks, Join(current_chunk, <<" ">>))
       ELSE valid_chunks
  ELSE LET chunk == Head(chunks)
           words == SplitWords(chunk)
           flush == current_len + Len(words) > max_words /\ current_chunk # <<>>
       IN IF words = <<>>
          THEN ChunkLoop(Tail(chunks), current_chunk, current_len, valid_chunks, max_words)
          ELSE ChunkLoop(Tail(chunks),
                         Append(IF flush THEN <<>> ELSE current_chunk, chunk),
                         (IF flush THEN 0 ELSE current_len) + Len(words),
                         IF flush
                         THEN Append(valid_chunks, Join(current_chunk, <<" ">>))
                         ELSE valid_chunks,
                         max_words)

\* valid_chunks as it stands before the return statement
GroupSentences(text, max_words) ==
  ChunkLoop(ReSplitSentences(text), <<>>, 0, <<>>, max_words)

WordCount(s) == Len(SplitWords(s))

\* the return statement: the list comprehension over valid_chunks
FilterShort(valid_chunks, min_words) ==
  SelectSeq(valid_chunks, LAMBDA c : WordCount(c) >= min_words)

chunk_text(text, min_words, max_words) ==
  FilterShort(GroupSentences(text, max_words), min_words)

(***************************************************************************)
(* augment_text_with_noise                                                 *)
(*                                                                         *)
(* random.random() is uniform on [0, 1): a draw is the hundredth it falls  *)
(* in, bucket k standing for k/100 <= r < (k+1)/100, and a cutoff c/100    *)
(* is the integer c: r < c/100 is k < c, r > c/100 is k >= c (up to the    *)
(* single point r = c/100).                                                *)
(***************************************************************************)
DrawBuckets == 0..99

SkipCut == 80
DropCut == 3
SwapCut == 8
DeleteCut == 11

\* the comparison turned round: if random.random() < 0.8: return text
SkipsAugmentationTurned(r) == r < SkipCut

\* if random.random() > 0.8: return text
SkipsAugmentation(r) == r >= SkipCut

\* the branch the loop body takes for a word of n characters and a draw r
WordAction(n, r) ==
  IF n < 4 /\ r < DropCut THEN "drop"
  ELSE IF n > 3 /\ r < SwapCut /\ n > 1 THEN "swap"
  ELSE IF n > 4 /\ r < DeleteCut THEN "delete"
  ELSE "keep"

\* random.randint(0, len(chars) - 1) in the deletion branch
IndexChoicesAnyDelete(n, action) ==
  IF action = "swap" THEN 0..(n - 2)
  ELSE IF action = "delete" THEN 0..(n - 1)
  ELSE {-1}

\* the values random.randint may return in the branch, as Python indexes
IndexChoices(n, action) ==
  IF action = "swap" THEN 0..(n - 2)
  ELSE IF action = "delete" THEN 1..(n - 2)
  ELSE {-1}

\* chars[idx], chars[idx + 1] = chars[idx + 1], chars[idx]
SwapChars(word, idx) ==
  [k \in 1..Len(word) |->
     IF k = idx + 1 THEN word[idx + 2]
     ELSE IF k = idx + 2 THEN word[idx + 1]
     ELSE word[k]]

\* del chars[idx]
DeleteChar(word, idx) ==
  SubSeq(word, 1, idx) \o SubSeq(word, idx + 2, Len(word))

\* the loop body without the continue of the swap branch: a swapped word of
\* more than 4 characters goes on to the deletion rule
PerturbWordFallThrough(word, r, idx) ==
  LET action == WordAction(Len(word), r)
  IN IF action = "drop" THEN <<>>
     ELSE IF action = "swap"
          THEN (IF Len(word) > 4 /\ r < DeleteCut
                THEN <<SwapChars(word, idx), DeleteChar(word, 1)>>
                ELSE <<SwapChars(word, idx)>>)
     ELSE IF action = "delete" THEN <<DeleteChar(word, idx)>>
     ELSE <<word>>

\* what one pass of the loop body appends to new_words
PerturbWord(word, r, idx) ==
  LET action == WordAction(Len(word), r)
  IN IF action = "drop" THEN <<>>
     ELSE IF action = "swap" THEN <<SwapChars(word, idx)>>
     ELSE IF action = "delete" THEN <<DeleteChar(word, idx)>>
     ELSE <<word>>

(***************************************************************************)
(* parse_wi_corpus.  The file is what pandas.read_csv makes of it: absent, *)
(* unreadable (read_csv raises), or rows with the cells text and           *)
(* automarker_cefr_level; a cell is a string or NaN.                       *)
(***************************************************************************)
DefaultMinWords == 5
DefaultMaxWords == 50

StrCell(chars) == [str |-> TRUE, val |-> chars]
NaNCell == [str |-> FALSE, val |-> <<>>]

\* str(value)
PyStr(cell) == IF cell.str THEN cell.val ELSE <<"n", "a", "n">>

\* .strip().upper() then .replace("+", "").replace("-", "")
BaseLabel(cell) == RemoveChar(RemoveChar(Upper(Strip(PyStr(cell))), "+"), "-")

\* the loop body that emits the whole text of the row as one record
ParseWiRowWhole(row) ==
  LET text == row.text
      base_label == BaseLabel(row.automarker_cefr_level)
  IN IF ~text.str \/ Strip(text.val) = <<>> THEN <<>>
     ELSE IF base_label \in DOMAIN LABEL2ID
          THEN <<[text |-> text.val, label |-> LABEL2ID[base_label], source |-> "wi"]>>
          ELSE <<>>

\* the body of the loop over rows: the records one row appends
ParseWiRow(row) ==
  LET text == row.text
      base_label == BaseLabel(row.automarker_cefr_level)
  IN IF ~text.str \/ Strip(text.val) = <<>> THEN <<>>
     ELSE IF base_label \in DOMAIN LABEL2ID
          THEN LET chunks == chunk_text(text.val, DefaultMinWords, DefaultMaxWords)
               IN [k \in 1..Len(chunks) |->
                     [text |-> chunks[k], label |-> LABEL2ID[base_label], source |-> "wi"]]
          ELSE <<>>

RECURSIVE ParseWiRows(_)
ParseWiRows(rows) ==
  IF rows = <<>> THEN <<>> ELSE ParseWiRow(Head(rows)) \o ParseWiRows(Tail(rows))

parse_wi_corpus(file) ==
  IF ~file.exists THEN <<>>
  ELSE IF ~file.readable THEN <<>>
  ELSE ParseWiRows(file.rows)

(***************************************************************************)
(* Seeded shuffling.  Dataset.shuffle(seed=s) and train_test_split draw a  *)
(* permutation from a generator seeded with s: a fixed function of the     *)
(* seed and the length.  The generator is stood for by a linear            *)
(* congruential one driving a Fisher-Yates pass.                           *)
(***************************************************************************)
LcgNext(x) == (x * 75 + 74) % 65537

RemoveAt(xs, j) == SubSeq(xs, 1, j - 1) \o SubSeq(xs, j + 1, Len(xs))

RECURSIVE FisherYates(_, _)
FisherYates(xs, state) ==
  IF Len(xs) <= 1 THEN xs
  ELSE LET j == (state % Len(xs)) + 1
       IN <<xs[j]>> \o FisherYates(RemoveAt(xs, j), LcgNext(state))

Shuffled(xs, seed) == FisherYates(xs, LcgNext(seed))

\* train_test_split(test_size=pct/100, seed): n_test = ceil(n * test_size),
\* the rest is the train part; an empty dataset comes back as both parts, and
\* the library raises when the train part of a non-empty dataset would be empty
SplitTestCount(n, pct) == (n * pct + 99) \div 100

SplitRaises(n, pct) == n > 0 /\ n - SplitTestCount(n, pct) <= 0

SplitAt(p, n_test) ==
  [test |-> SubSeq(p, 1, n_test), train |-> SubSeq(p, n_test + 1, Len(p))]

TrainTestSplit(xs, pct, seed) == SplitAt(Shuffled(xs, seed), SplitTestCount(Len(xs), pct))

\* random.shuffle(xs) and train_test_split without a seed draw from a generator
\* nothing has seeded: every order of xs can come out
RECURSIVE AllOrders(_)
AllOrders(xs) ==
  IF Len(xs) <= 1 THEN {xs}
  ELSE UNION {{<<xs[j]>> \o rest : rest \in AllOrders(RemoveAt(xs, j))} : j \in 1..Len(xs)}

UnseededSplits(xs, pct) == {SplitAt(p, SplitTestCount(Len(xs), pct)) : p \in AllOrders(xs)}

(***************************************************************************)
(* The assemblers: train_model (cefr_trainer.py), train                    *)
(* (train_cefr_minilm.py) and train_deberta.                               *)
(* A file of /stm-data is <<>> when it cannot be opened and <<content>>    *)
(* otherwise; the remote dataset is [ok, rows], ok false when load_dataset *)
(* raises.                                                                 *)
(***************************************************************************)
DebertaOversample == 3
\* the factor of the other script copied over
TrainerOversampleSlip == DebertaOversample
TrainerOversample == 4
EvalSampleCap == 100
ShuffleSeed == 42
TrainerTestPct == 1
DebertaTestPct == 10

\* with open(path) as f: parse_stm_file(f.read()), nothing when open raises
\* (train_model) or when os.path.exists is false (train_deberta)
ReadStm(file) == IF Len(file) # 1 THEN <<>> ELSE parse_stm_file(file[1])

\* a file that exists and whose open raises; a file that does not exist
Locked(content) == <<content, <<"E", "A", "C", "C", "E", "S">>>>

FileExists(file) == file # <<>>

FileOpens(file) == Len(file) = 1

\* the names the assemblers read under /stm-data
StmFileNames == <<"train-asr.stm", "dev-asr.stm", "eval-asr.stm">>

\* what train_model prints for the training files it could not open
StmWarnings(files) ==
  LET failed == SelectSeq([k \in 1..Len(files) |-> k], LAMBDA k : ~FileOpens(files[k]))
  IN [j \in 1..Len(failed) |-> [source |-> StmFileNames[failed[j]], kind |-> "could_not_load"]]

\* what parse_wi_corpus prints when it returns [] for the file
WiWarnings(file) ==
  IF ~file.exists THEN <<[source |-> "wi", kind |-> "not_found"]>>
  ELSE IF ~file.readable THEN <<[source |-> "wi", kind |-> "parse_error"]>>
  ELSE <<>>

\* the list ["train-asr.stm", "dev-asr.stm"] the assemblers loop over
StmTrainFilesWithEval(env) == <<env.train, env.dev, env.eval>>
StmTrainFiles(env) == <<env.train, env.dev>>

\* stm_entries after the loop over the training files
ReadStmFiles(files) == Flatten([k \in 1..Len(files) |-> ReadStm(files[k])])

\* map_hf_labels
map_hf_labels(example) ==
  LET label == Strip(Upper(example.cefr_level))
  IN [text |-> example.text,
      label |-> IF label \in DOMAIN LABEL2ID THEN LABEL2ID[label] ELSE 0,
      source |-> "hf"]

\* hf_ds.filter(lambda x: x["language"] == "en")
FilterEnglish(rows) == SelectSeq(rows, LAMBDA x : x.language = <<"e", "n">>)

\* hf_ds.map(map_hf_labels, remove_columns=...)["train"]
MapHfDataset(rows) ==
  LET en == FilterEnglish(rows)
  IN [k \in 1..Len(en) |-> map_hf_labels(en[k])]

\* dataset.select(range(min(k, len(dataset)))) and list[:k]
FirstN(xs, k) == SubSeq(xs, 1, IF k < Len(xs) THEN k ELSE Len(xs))

\* what the loop body of augment_text_with_noise can append for a word
WordOutcomes(word) ==
  UNION {{PerturbWord(word, r, idx) :
            idx \in IndexChoices(Len(word), WordAction(Len(word), r))} :
         r \in DrawBuckets}

RECURSIVE PerturbedWordLists(_)
PerturbedWordLists(words) ==
  IF words = <<>> THEN {<<>>}
  ELSE {h \o t : h \in WordOutcomes(Head(words)), t \in PerturbedWordLists(Tail(words))}

\* every text augment_text_with_noise(text) can return
AugOutcomes(text) ==
  IF text = <<>> THEN {text}
  ELSE {text} \cup {Join(ws, <<" ">>) : ws \in PerturbedWordLists(SplitWords(text))}

\* [augment_text_with_noise(t) for t in texts]: every list it can produce
RECURSIVE AugmentedLists(_)
AugmentedLists(texts) ==
  IF texts = <<>> THEN {<<>>}
  ELSE {<<h>> \o t : h \in AugOutcomes(Head(texts)), t \in AugmentedLists(Tail(texts))}

(***************************************************************************)
(* load_universal_cefr.  A raw level of a row is [kind, val]: an int (val   *)
(* its decimal digits), a str, None, or a float that is nan or inf.  A      *)
(* text is a cell as in parse_wi_corpus.  A dataset of the hub is [ok,      *)
(* rows, iter_ok]: ok false when load_dataset raises, iter_ok false when    *)
(* the iteration raises after the rows.                                     *)
(***************************************************************************)
EdesarasName ==
  <<"e", "d", "e", "s", "a", "r", "a", "s", "/", "C", "E", "F", "R", "-",
    "S", "e", "n", "t", "e", "n", "c", "e", "-", "L", "e", "v", "e", "l",
    "-", "A", "n", "n", "o", "t", "a", "t", "i", "o", "n", "s">>

Alex123321Name ==
  <<"A", "l", "e", "x", "1", "2", "3", "3", "2", "1", "/", "e", "n", "g",
    "l", "i", "s", "h", "_", "c", "e", "f", "r", "_", "d", "a", "t", "a",
    "s", "e", "t">>

AmontgomerieName ==
  <<"a", "m", "o", "n", "t", "g", "o", "m", "e", "r", "i", "e", "/", "c",
    "e", "f", "r", "-", "l", "e", "v", "e", "l", "l", "e", "d", "-", "e",
    "n", "g", "l", "i", "s", "h", "-", "t", "e", "x", "t", "s">>

\* DATASET_CONFIGS; <<>> stands for None
DATASET_CONFIGS ==
  << [name |-> EdesarasName, level_is_numeric |-> TRUE, lang_field |-> <<>>, lang_filter |-> <<>>],
     [name |-> Alex123321Name, level_is_numeric |-> FALSE, lang_field |-> <<>>, lang_filter |-> <<>>],
     [name |-> AmontgomerieName, level_is_numeric |-> FALSE, lang_field |-> <<>>, lang_filter |-> <<>>] >>

IntLevel(digits) == [kind |-> "int", val |-> digits]
StrLevel(chars) == [kind |-> "str", val |-> chars]
NoneLevel == [kind |-> "none", val |-> <<>>]
NanLevel == [kind |-> "nan", val |-> <<>>]
InfLevel == [kind |-> "inf", val |-> <<>>]

DigitValue ==
  ("0" :> 0) @@ ("1" :> 1) @@ ("2" :> 2) @@ ("3" :> 3) @@ ("4" :> 4) @@
  ("5" :> 5) @@ ("6" :> 6) @@ ("7" :> 7) @@ ("8" :> 8) @@ ("9" :> 9)

RECURSIVE DigitsValue(_)
DigitsValue(ds) ==
  IF ds = <<>> THEN 0
  ELSE DigitsValue(SubSeq(ds, 1, Len(ds) - 1)) * 10 + DigitValue[ds[Len(ds)]]

\* the characters int() skips around an ASCII literal: blank, \t \n \v \f \r,
\* not the separators 0x1c..0x1f
IntWhitespace == {" ", "\t", "\n", "\r", "\f", ""}

\* int(x) on a decimal literal: surrounding whitespace and one sign allowed,
\* and single underscores between digits; [ok |-> FALSE] stands for ValueError
ParseInt(chars) ==
  LET Signed(s) == s # <<>> /\ Head(s) \in {"+", "-"}
      Grouped(ds) ==
        /\ ds # <<>>
        /\ \A i \in 1..Len(ds) :
             \/ ds[i] \in DOMAIN DigitValue
             \/ /\ ds[i] = "_" /\ 1 < i /\ i < Len(ds)
                /\ ds[i - 1] \in DOMAIN DigitValue /\ ds[i + 1] \in DOMAIN DigitValue
      Magnitude(ds) == DigitsValue(SelectSeq(ds, LAMBDA c : c # "_"))
      Digits(s, ds) ==
        IF Grouped(ds)
        THEN [ok |-> TRUE,
              val |-> IF Signed(s) /\ Head(s) = "-" THEN 0 - Magnitude(ds)
                      ELSE Magnitude(ds)]
        ELSE [ok |-> FALSE, val |-> 0]
      Stripped(s) == Digits(s, IF Signed(s) THEN Tail(s) ELSE s)
  IN Stripped(StripChars(chars, IntWhitespace))

\* int(raw_level): "value", "caught" (ValueError, TypeError) or "raised"
\* (OverflowError of an infinite float, which the inner handler lets through)
PyIntLevel(raw) ==
  IF raw.kind \in {"int", "str"}
  THEN LET Converted(r) == [outcome |-> IF r.ok THEN "value" ELSE "caught", val |-> r.val]
       IN Converted(ParseInt(raw.val))
  ELSE IF raw.kind = "inf" THEN [outcome |-> "raised", val |-> 0]
  ELSE [outcome |-> "caught", val |-> 0]

\* str(raw_level)
PyStrLevel(raw) ==
  IF raw.kind \in {"int", "str"} THEN raw.val
  ELSE IF raw.kind = "none" THEN <<"N", "o", "n", "e">>
  ELSE IF raw.kind = "nan" THEN <<"n", "a", "n">>
  ELSE <<"i", "n", "f">>

\* the label of a row: [outcome, label], outcome "label", "skipped" (the
\* row counts in skipped_levels) or "raised"
UcLabel(config, raw_level) ==
  IF config.level_is_numeric
  THEN LET Numeric(level_int) ==
             IF level_int.outcome = "value"
             THEN (IF 0 <= level_int.val /\ level_int.val <= 5
                   THEN [outcome |-> "label", label |-> level_int.val]
                   ELSE [outcome |-> "skipped", label |-> 0])
             ELSE [outcome |-> IF level_int.outcome = "raised" THEN "raised" ELSE "skipped",
                   label |-> 0]
       IN Numeric(PyIntLevel(raw_level))
  ELSE LET Named(base_level) ==
             IF base_level \notin DOMAIN LABEL2ID
             THEN [outcome |-> "skipped", label |-> 0]
             ELSE [outcome |-> "label", label |-> LABEL2ID[base_level]]
       IN Named(RemoveChar(RemoveChar(Upper(Strip(PyStrLevel(raw_level))), "+"), "-"))

\* f"cefr_{dataset_name.split('/')[-1]}"
UcSource(dataset_name) ==
  LET pieces == SplitOn(dataset_name, "/")
  IN <<"c", "e", "f", "r", "_">> \o pieces[Len(pieces)]

\* the loop body that keeps a text only when it is longer than min_words
UcItemStrictMin(config, item, min_words, max_words) ==
  LET Entries(texts, lab, source) ==
        [k \in 1..Len(texts) |-> [text |-> texts[k], label |-> lab.label, source |-> source]]
      Row(text, lab, source, word_count) ==
        IF ~text.str \/ Strip(text.val) = <<>> THEN [outcome |-> "ok", entries |-> <<>>]
        ELSE IF lab.outcome # "label" THEN [outcome |-> lab.outcome, entries |-> <<>>]
        ELSE IF word_count > max_words
             THEN [outcome |-> "ok",
                   entries |-> Entries(chunk_text(text.val, min_words, max_words), lab, source)]
        ELSE IF word_count > min_words
             THEN [outcome |-> "ok", entries |-> Entries(<<text.val>>, lab, source)]
        ELSE [outcome |-> "ok", entries |-> <<>>]
  IN Row(item.text, UcLabel(config, item.level), UcSource(config.name),
         WordCount(item.text.val))

\* the body of the loop over the items of a dataset: [outcome, entries],
\* outcome "ok", "skipped" (invalid level) or "raised"
UcItem(config, item, min_words, max_words) ==
  LET Entries(texts, lab, source) ==
        [k \in 1..Len(texts) |-> [text |-> texts[k], label |-> lab.label, source |-> source]]
      Row(text, lab, source, word_count) ==
        IF ~text.str \/ Strip(text.val) = <<>> THEN [outcome |-> "ok", entries |-> <<>>]
        ELSE IF lab.outcome # "label" THEN [outcome |-> lab.outcome, entries |-> <<>>]
        ELSE IF word_count > max_words
             THEN [outcome |-> "ok",
                   entries |-> Entries(chunk_text(text.val, min_words, max_words), lab, source)]
        ELSE IF word_count >= min_words
             THEN [outcome |-> "ok", entries |-> Entries(<<text.val>>, lab, source)]
        ELSE [outcome |-> "ok", entries |-> <<>>]
  IN Row(item.text, UcLabel(config, item.level), UcSource(config.name),
         WordCount(item.text.val))

\* the try block that adds the entries to all_entries as they are collected
UcDatasetPartial(config, dataset, min_words, max_words) ==
  LET Collected(per_item) ==
        [raised |-> ~dataset.ok,
         entries |-> IF dataset.ok
                     THEN Flatten([k \in 1..Len(per_item) |-> per_item[k].entries])
                     ELSE <<>>,
         skipped_levels |-> Len(SelectSeq(per_item, LAMBDA r : r.outcome = "skipped"))]
  IN Collected([k \in 1..Len(dataset.rows) |->
                  UcItem(config, dataset.rows[k], min_words, max_words)])

\* the try block for one config: [raised, entries, skipped_levels]
UcDataset(config, dataset, min_words, max_words) ==
  LET Collected(per_item) ==
        [raised |-> \/ ~dataset.ok
                    \/ ~dataset.iter_ok
                    \/ \E k \in 1..Len(per_item) : per_item[k].outcome = "raised",
         entries |-> IF dataset.ok
                     THEN Flatten([k \in 1..Len(per_item) |-> per_item[k].entries])
                     ELSE <<>>,
         skipped_levels |-> Len(SelectSeq(per_item, LAMBDA r : r.outcome = "skipped"))]
  IN Collected([k \in 1..Len(dataset.rows) |->
                  UcItem(config, dataset.rows[k], min_words, max_words)])

\* what the try block for config k prints
UcDatasetLog(k, outcome) ==
  <<[msg |-> "loading", k |-> k, n |-> 0]>> \o
  (IF outcome.raised THEN <<[msg |-> "failed", k |-> k, n |-> 0]>>
   ELSE (IF outcome.skipped_levels > 0
         THEN <<[msg |-> "skipped_levels", k |-> k, n |-> outcome.skipped_levels]>>
         ELSE <<>>) \o
        (IF outcome.entries # <<>>
         THEN <<[msg |-> "loaded", k |-> k, n |-> Len(outcome.entries)]>>
         ELSE <<[msg |-> "no_valid", k |-> k, n |-> 0]>>))

(***************************************************************************)
(* The id each component gives a level string, Unmapped when the component *)
(* skips the line or row that carries it                                   *)
(***************************************************************************)
Unmapped == 0 - 1

\* parse_stm_file, for a bracketed group with the one field part
StmLevelId(part) ==
  LET cefr == ScanParts(<<part>>)
  IN IF cefr # <<>> /\ cefr \in DOMAIN LABEL2ID THEN LABEL2ID[cefr] ELSE Unmapped

\* parse_wi_corpus, for a row whose automarker_cefr_level is the string level
WiLevelId(level) ==
  LET base_label == BaseLabel(StrCell(level))
  IN IF base_label \in DOMAIN LABEL2ID THEN LABEL2ID[base_label] ELSE Unmapped

\* map_hf_labels of train_model, for an example whose cefr_level is level
HfLevelId(level) ==
  map_hf_labels([text |-> <<>>, cefr_level |-> level, language |-> <<"e", "n">>]).label

\* load_universal_cefr, for a row of a dataset with string levels
UcLevelId(level) ==
  LET lab == UcLabel(DATASET_CONFIGS[2], StrLevel(level))
  IN IF lab.outcome = "label" THEN lab.label ELSE Unmapped

(***************************************************************************)
(* The draws of a call as a tape: the draw of the skip test, then for each *)
(* word its draw r and a raw value u from which random.randint(lo, hi)     *)
(* takes lo + u mod (hi - lo + 1)                                          *)
(***************************************************************************)
RandInt(lo, hi, u) == lo + (u % (hi - lo + 1))

\* augment_text_with_noise of cefr_utils.py on the tape r0, draws
AugmentWithDraws(text, r0, draws) ==
  LET words == SplitWords(text)
      Idx(n, action, u) ==
        IF action = "swap" THEN RandInt(0, n - 2, u)
        ELSE IF action = "delete" THEN RandInt(1, n - 2, u)
        ELSE 0 - 1
      Pass(word, d) ==
        PerturbWord(word, d.r, Idx(Len(word), WordAction(Len(word), d.r), d.u))
  IN IF text = <<>> THEN text
     ELSE IF SkipsAugmentation(r0) THEN text
     ELSE Join(Flatten([k \in 1..Len(words) |-> Pass(words[k], draws[k])]), <<" ">>)

(***************************************************************************)
(* The helpers train_cefr_minilm.py defines for itself                     *)
(***************************************************************************)
MinilmLABEL2ID ==
  (<<"A", "1">> :> 0) @@ (<<"A", "2">> :> 1) @@ (<<"B", "1">> :> 2) @@
  (<<"B", "2">> :> 3) @@ (<<"C", "1">> :> 4) @@ (<<"C", "2">> :> 5)

\* the loop over parts of the copy, with its break
RECURSIVE MinilmScanParts(_)
MinilmScanParts(parts) ==
  IF parts = <<>> THEN <<>>
  ELSE LET Found(part) ==
             IF part \in {<<"A", "1">>, <<"A", "2">>, <<"B", "1">>, <<"B", "2">>,
                          <<"C", "1">>, <<"C", "2">>, <<"C">>}
             THEN (IF part = <<"C">> THEN <<"C", "1">> ELSE part)
             ELSE MinilmScanParts(Tail(parts))
       IN Found(Strip(Head(parts)))

\* the body of the loop over lines of the copy
MinilmParseStmLine(raw) ==
  LET Labelled(text, cefr) ==
        IF text = <<>> THEN <<>>
        ELSE IF cefr # <<>> /\ cefr \in DOMAIN MinilmLABEL2ID
             THEN <<[text |-> text, label |-> MinilmLABEL2ID[cefr], source |-> "stm"]>>
             ELSE <<>>
      Matched(line, m) ==
        IF m = <<0, 0>> THEN <<>>
        ELSE Labelled(Strip(SubSeq(line, m[2] + 1, Len(line))),
                      MinilmScanParts(SplitOn(StripChars(SubSeq(line, m[1], m[2]),
                                                         {"<", ">"}), ",")))
      Line(line) ==
        IF line = <<>> \/ StartsWith(line, <<";", ";">>) THEN <<>>
        ELSE Matched(line, SearchGroup(line))
  IN Line(Strip(raw))

minilm_parse_stm_file(content) ==
  LET lines == SplitOn(content, "\n")
  IN Flatten([k \in 1..Len(lines) |-> MinilmParseStmLine(lines[k])])

\* the for loop of the copy of chunk_text and the flush after it
RECURSIVE MinilmChunkLoop(_, _, _, _, _)
MinilmChunkLoop(chunks, current_chunk, current_len, valid_chunks, max_words) ==
  IF chunks = <<>>
  THEN IF current_chunk # <<>>
       THEN Append(valid_chunks, Join(current_chunk, <<" ">>))
       ELSE valid_chunks
  ELSE LET Step(chunk, words, flush) ==
             IF words = <<>>
             THEN MinilmChunkLoop(Tail(chunks), current_chunk, current_len, valid_chunks,
                                  max_words)
             ELSE MinilmChunkLoop(Tail(chunks),
                                  Append(IF flush THEN <<>> ELSE current_chunk, chunk),
                                  (IF flush THEN 0 ELSE current_len) + Len(words),
                                  IF flush
                                  THEN Append(valid_chunks, Join(current_chunk, <<" ">>))
                                  ELSE valid_chunks,
                                  max_words)
       IN Step(Head(chunks), SplitWords(Head(chunks)),
               current_len + Len(SplitWords(Head(chunks))) > max_words
                 /\ current_chunk # <<>>)

minilm_chunk_text(text, min_words, max_words) ==
  SelectSeq(MinilmChunkLoop(ReSplitSentences(text), <<>>, 0, <<>>, max_words),
            LAMBDA c : Len(SplitWords(c)) >= min_words)

\* the body of the loop over rows of the copy of parse_wi_corpus
MinilmParseWiRow(row) ==
  LET Records(chunks, label_id) ==
        [k \in 1..Len(chunks) |-> [text |-> chunks[k], label |-> label_id, source |-> "wi"]]
      Labelled(text, base_label) ==
        IF ~text.str \/ Strip(text.val) = <<>> THEN <<>>
        ELSE IF base_label \in DOMAIN MinilmLABEL2ID
             THEN Records(minilm_chunk_text(text.val, 5, 50), MinilmLABEL2ID[base_label])
             ELSE <<>>
  IN Labelled(row.text,
              RemoveChar(RemoveChar(Upper(Strip(PyStr(row.automarker_cefr_level))), "+"), "-"))

minilm_parse_wi_corpus(file) ==
  IF ~file.exists THEN <<>>
  ELSE IF ~file.readable THEN <<>>
  ELSE Flatten([k \in 1..Len(file.rows) |-> MinilmParseWiRow(file.rows[k])])

(***************************************************************************)
(* augment_text_with_noise as train_cefr_deberta.py defines it             *)
(***************************************************************************)
\* the loop body with random.randint(1, len(chars) - 1) in the deletion branch
DebertaPerturbWordLastChar(word, r, u) ==
  LET n == Len(word)
      Swapped(idx) ==
        [k \in 1..n |-> IF k = idx + 1 THEN word[idx + 2]
                        ELSE IF k = idx + 2 THEN word[idx + 1] ELSE word[k]]
      Deleted(idx) == SubSeq(word, 1, idx) \o SubSeq(word, idx + 2, n)
  IN IF n < 4 /\ r < 3 THEN <<>>
     ELSE IF n > 3 /\ r < 8 /\ n > 1 THEN <<Swapped(RandInt(0, n - 2, u))>>
     ELSE IF n > 4 /\ r < 11 THEN <<Deleted(RandInt(1, n - 1, u))>>
     ELSE <<word>>

\* the loop body of the copy: what one pass appends to new_words
DebertaPerturbWord(word, r, u) ==
  LET n == Len(word)
      Swapped(idx) ==
        [k \in 1..n |-> IF k = idx + 1 THEN word[idx + 2]
                        ELSE IF k = idx + 2 THEN word[idx + 1] ELSE word[k]]
      Deleted(idx) == SubSeq(word, 1, idx) \o SubSeq(word, idx + 2, n)
  IN IF n < 4 /\ r < 3 THEN <<>>
     ELSE IF n > 3 /\ r < 8 /\ n > 1 THEN <<Swapped(RandInt(0, n - 2, u))>>
     ELSE IF n > 4 /\ r < 11 THEN <<Deleted(RandInt(1, n - 2, u))>>
     ELSE <<word>>

deberta_augment_text_with_noise(text, r0, draws) ==
  LET words == SplitWords(text)
  IN IF text = <<>> THEN text
     ELSE IF r0 >= 80 THEN text
     ELSE Join(Flatten([k \in 1..Len(words) |->
                          DebertaPerturbWord(words[k], draws[k].r, draws[k].u)]), <<" ">>)

(***************************************************************************)
(* parse_stm_file as analyze_data.py defines it: the level name and the    *)
(* number of words of the text, for the lines the shared parser accepts    *)
(***************************************************************************)
AnalyzeLABEL2ID ==
  (<<"A", "1">> :> 0) @@ (<<"A", "2">> :> 1) @@ (<<"B", "1">> :> 2) @@
  (<<"B", "2">> :> 3) @@ (<<"C", "1">> :> 4) @@ (<<"C", "2">> :> 5)

RECURSIVE AnalyzeScanParts(_)
AnalyzeScanParts(parts) ==
  IF parts = <<>> THEN <<>>
  ELSE LET Found(part) ==
             IF part \in {<<"A", "1">>, <<"A", "2">>, <<"B", "1">>, <<"B", "2">>,
                          <<"C", "1">>, <<"C", "2">>, <<"C">>}
             THEN (IF part = <<"C">> THEN <<"C", "1">> ELSE part)
             ELSE AnalyzeScanParts(Tail(parts))
       IN Found(Strip(Head(parts)))

AnalyzeParseStmLine(raw) ==
  LET Labelled(text, cefr) ==
        IF text = <<>> THEN <<>>
        ELSE IF cefr # <<>> /\ cefr \in DOMAIN AnalyzeLABEL2ID
             THEN <<[label |-> cefr, length |-> Len(SplitWords(text))]>>
             ELSE <<>>
      Matched(line, m) ==
        IF m = <<0, 0>> THEN <<>>
        ELSE Labelled(Strip(SubSeq(line, m[2] + 1, Len(line))),
                      AnalyzeScanParts(SplitOn(StripChars(SubSeq(line, m[1], m[2]),
                                                          {"<", ">"}), ",")))
      Line(line) ==
        IF line = <<>> \/ StartsWith(line, <<";", ";">>) THEN <<>>
        ELSE Matched(line, SearchGroup(line))
  IN Line(Strip(raw))

analyze_parse_stm_file(content) ==
  LET lines == SplitOn(content, "\n")
  IN Flatten([k \in 1..Len(lines) |-> AnalyzeParseStmLine(lines[k])])

(***************************************************************************)
(* Inputs of parse_stm_file: lines built as prefix, bracketed group of     *)
(* comma-separated fields, suffix                                          *)
(***************************************************************************)
MaxFields == 2

StmFields ==
  { <<"B", "2">>, <<"C">>, <<"Q", "4">>, <<" ", "A", "1", " ">>, <<>>,
    <<"b", "1">>, <<"<", "C", "2">> }

StmPrefixes ==
  { <<>>, <<";", ";">>, <<"x", " ">>, <<" ">>, <<"<", ">">> }

StmSuffixes ==
  { <<>>, <<" ">>, <<" ", "h", "i", " ">>,
    <<" ", "h", "i", " ", "<", "C", "2", ">", " ", "y", "o">>,
    <<" ", "y", "o", "\n", "<", "C", ">", " ", "o", "k">> }

RECURSIVE SeqsUpTo(_, _)
SeqsUpTo(S, n) ==
  IF n = 0 THEN {<<>>}
  ELSE LET shorter == SeqsUpTo(S, n - 1)
       IN shorter \cup {Append(q, x) : q \in shorter, x \in S}

StmGroups ==
  {<<>>} \cup {<<"<">> \o Join(fs, <<",">>) \o <<">">> : fs \in SeqsUpTo(StmFields, MaxFields)}

StmContents == {p \o g \o s : p \in StmPrefixes, g \in StmGroups, s \in StmSuffixes}

InitStm ==
  /\ ChunkIdle /\ AugIdle /\ AsmIdle /\ LibIdle
  /\ stm_pc = "start"
  /\ stm_content \in StmContents
  /\ stm_entries = <<>>

\* one call of parse_stm_file on the content
ParseStm ==
  /\ stm_pc = "start"
  /\ stm_entries' = parse_stm_file(stm_content)
  /\ stm_pc' = "done"
  /\ UNCHANGED <<stm_content, chunkVars, augVars, asmVars, libVars>>

NextStm == ParseStm

SpecStm == InitStm /\ [][NextStm]_vars

(***************************************************************************)
(* Inputs of chunk_text: documents of a few tokens, some of them ending a  *)
(* sentence, separated by one or two blanks                                *)
(***************************************************************************)
MaxDocTokens == 4
MaxMinWords == 3
MaxMaxWords == 3

DocTokens == { <<"a">>, <<"b", ".">>, <<"c", "!">>, <<".">>, <<"d", "?", "e">> }

DocSeparators == { <<" ">>, <<" ", " ">> }

DocMargins == { <<>>, <<" ">> }

ChunkDocs ==
  {m \o Join(ts, sep) \o m : ts \in SeqsUpTo(DocTokens, MaxDocTokens),
                             sep \in DocSeparators, m \in DocMargins}

\* a document of the given number of sentences, each of the given number of
\* one-letter words and closed by a full stop, separated by single spaces
SentencesDoc(words, sentences) ==
  LET w == 2 * words + 1
  IN [k \in 1..(sentences * w - 1) |->
        LET pos == (k - 1) % w
        IN IF pos = w - 1 THEN " "
           ELSE IF pos = w - 2 THEN "."
           ELSE IF pos % 2 = 0 THEN "w" ELSE " "]

\* documents long enough for the default bounds of chunk_text
LongDocs == { SentencesDoc(120, 1), SentencesDoc(20, 6), SentencesDoc(30, 2) }

InitChunk ==
  /\ StmIdle /\ AugIdle /\ AsmIdle /\ LibIdle
  /\ chunk_pc = "start"
  /\ \/ /\ chunk_doc \in ChunkDocs
        /\ chunk_min \in 1..MaxMinWords
        /\ chunk_max \in 1..MaxMaxWords
     \/ /\ chunk_doc \in LongDocs
        /\ chunk_min = DefaultMinWords
        /\ chunk_max = DefaultMaxWords
  /\ chunk_valid = <<>>
  /\ chunk_out = <<>>

\* one call of chunk_text(chunk_doc, chunk_min, chunk_max)
ChunkText ==
  /\ chunk_pc = "start"
  /\ chunk_valid' = GroupSentences(chunk_doc, chunk_max)
  /\ chunk_out' = chunk_text(chunk_doc, chunk_min, chunk_max)
  /\ chunk_pc' = "done"
  /\ UNCHANGED <<chunk_doc, chunk_min, chunk_max, stmVars, augVars, asmVars, libVars>>

NextChunk == ChunkText

SpecChunk == InitChunk /\ [][NextChunk]_vars

(***************************************************************************)
(* Calls of augment_text_with_noise: the draws come from the process-wide  *)
(* generator of the random module, which the repository never seeds, so a  *)
(* draw can be any bucket                                                  *)
(***************************************************************************)
MaxAugWords == 2
MaxCalls == 2

AugWordSet ==
  { <<"t", "o">>, <<"t", "h", "e">>, <<"w", "o", "r", "d">>, <<"a", "u", "d", "i", "o">> }

AugTexts ==
  {Join(ws, <<" ">>) : ws \in SeqsUpTo(AugWordSet, MaxAugWords)}
    \cup { <<" ">>, <<" ", "t", "o", " ", " ", "t", "h", "e", " ">> }

InitAugCall ==
  /\ aug_pc = "start"
  /\ aug_words = <<>> /\ aug_i = 0 /\ aug_new_words = <<>>
  /\ aug_r = -1 /\ aug_idx = -1 /\ aug_action = "none"
  /\ aug_result = <<>> /\ aug_prev = <<>> /\ aug_calls = 1

InitAug ==
  /\ StmIdle /\ ChunkIdle /\ AsmIdle /\ LibIdle
  /\ aug_text \in AugTexts
  /\ InitAugCall

\* lines 18-25: the empty-text return, the first draw, the skip branch
AugEnter ==
  /\ aug_pc = "start"
  /\ IF aug_text = <<>>
     THEN /\ aug_result' = aug_text
          /\ aug_pc' = "done"
          /\ aug_action' = "empty"
          /\ UNCHANGED <<aug_r, aug_words, aug_i>>
     ELSE \E r \in DrawBuckets :
            /\ aug_r' = r
            /\ IF SkipsAugmentation(r)
               THEN /\ aug_result' = aug_text
                    /\ aug_pc' = "done"
                    /\ aug_action' = "skip"
                    /\ UNCHANGED <<aug_words, aug_i>>
               ELSE /\ aug_words' = SplitWords(aug_text)
                    /\ aug_i' = 1
                    /\ aug_pc' = "words"
                    /\ aug_action' = "perturb"
                    /\ UNCHANGED aug_result
  /\ UNCHANGED <<aug_text, aug_new_words, aug_idx, aug_prev, aug_calls>>
  /\ UNCHANGED <<stmVars, chunkVars, asmVars, libVars>>

\* lines 28-52: one pass of the loop over words
AugWord ==
  /\ aug_pc = "words"
  /\ aug_i <= Len(aug_words)
  /\ \E r \in DrawBuckets :
       LET word == aug_words[aug_i]
           action == WordAction(Len(word), r)
       IN \E idx \in IndexChoices(Len(word), action) :
            /\ aug_r' = r
            /\ aug_idx' = idx
            /\ aug_action' = action
            /\ aug_new_words' = aug_new_words \o PerturbWord(word, r, idx)
  /\ aug_i' = aug_i + 1
  /\ UNCHANGED <<aug_pc, aug_text, aug_words, aug_result, aug_prev, aug_calls>>
  /\ UNCHANGED <<stmVars, chunkVars, asmVars, libVars>>

\* line 54: return " ".join(new_words)
AugReturn ==
  /\ aug_pc = "words"
  /\ aug_i > Len(aug_words)
  /\ aug_result' = Join(aug_new_words, <<" ">>)
  /\ aug_pc' = "done"
  /\ aug_action' = "return"
  /\ UNCHANGED <<aug_text, aug_words, aug_i, aug_new_words, aug_r, aug_idx,
                 aug_prev, aug_calls>>
  /\ UNCHANGED <<stmVars, chunkVars, asmVars, libVars>>

NextAug == AugEnter \/ AugWord \/ AugReturn

SpecAug == InitAug /\ [][NextAug]_vars

\* the same process calls the augmenter again on the same text: the
\* generator goes on from where the first call left it
AugCallAgain ==
  /\ aug_pc = "done"
  /\ aug_calls < MaxCalls
  /\ aug_prev' = aug_result
  /\ aug_calls' = aug_calls + 1
  /\ aug_pc' = "start"
  /\ aug_words' = <<>> /\ aug_i' = 0 /\ aug_new_words' = <<>>
  /\ aug_r' = -1 /\ aug_idx' = -1 /\ aug_action' = "none"
  /\ aug_result' = <<>>
  /\ UNCHANGED aug_text
  /\ UNCHANGED <<stmVars, chunkVars, asmVars, libVars>>

NextAugTwice == AugEnter \/ AugWord \/ AugReturn \/ AugCallAgain

SpecAugTwice == InitAug /\ [][NextAugTwice]_vars

(***************************************************************************)
(* Runs of the assemblers                                                  *)
(***************************************************************************)
MaxMaxSamples == 2
MaxEvalLines == 101
MaxSplitRows == 4

StmLineB2 == <<"<", "Q", "4", ",", "B", "2", ">", " ", "h", "i">>
StmLineC == <<"<", "C", ">", " ", "y", "o", "u">>
StmLineC2 == <<"<", "C", "2", ">", " ", "a", "h">>
StmLineB1 == <<"<", "B", "1", ">", " ", "o", "k">>
StmLineJunk == <<"n", "o", " ", "t", "a", "g">>

TrainFiles ==
  { <<>>, <<StmLineJunk>>, <<StmLineJunk \o <<"\n">> \o StmLineB2>>, Locked(StmLineB2) }

DevFiles == { <<>>, <<StmLineC>> }

\* n lines separated by newlines: first, then n - 1 times other, two lines
\* of the same length
LinesFile(first, other, n) ==
  LET w == Len(first) + 1
  IN [k \in 1..(n * w - 1) |->
        LET pos == (k - 1) % w
        IN IF pos = w - 1 THEN "\n"
           ELSE IF k <= w THEN first[pos + 1] ELSE other[pos + 1]]

\* eval-asr.stm: absent, one line, or MaxEvalLines lines
EvalFiles ==
  { <<>>, <<StmLineB1>>, <<LinesFile(StmLineC2, StmLineB1, MaxEvalLines)>> }

\* train_deberta has no cap on the held-out records
ShortEvalFiles == { <<>>, <<StmLineB1>> }

WiText5 ==
  <<"m", "m", "m", "m", " ", "m", "m", "m", "m", " ", "m", "m", "m", "m", " ",
    "m", "m", "m", "m", " ", "m", "m", "m", "m">>

WiRowValid == [text |-> StrCell(WiText5), automarker_cefr_level |-> StrCell(<<"b", "1", "+">>)]
WiRowNaN == [text |-> NaNCell, automarker_cefr_level |-> StrCell(<<"A", "2">>)]
WiRowUnmapped == [text |-> StrCell(WiText5), automarker_cefr_level |-> NaNCell]
WiRowValidA1 == [text |-> StrCell(WiText5), automarker_cefr_level |-> StrCell(<<"A", "1">>)]

WiFiles ==
  { [exists |-> FALSE, readable |-> FALSE, rows |-> <<>>],
    [exists |-> TRUE, readable |-> FALSE, rows |-> <<>>],
    [exists |-> TRUE, readable |-> TRUE, rows |-> <<WiRowNaN, WiRowUnmapped>>],
    [exists |-> TRUE, readable |-> TRUE, rows |-> <<WiRowNaN, WiRowValid>>],
    [exists |-> TRUE, readable |-> TRUE, rows |-> <<WiRowValid, WiRowValidA1>>] }

HfRowA2 == [text |-> <<"g", "o", "o", "d">>, cefr_level |-> <<" ", "a", "2">>, language |-> <<"e", "n">>]
HfRowNA == [text |-> <<"b", "a", "d">>, cefr_level |-> <<"N", "A">>, language |-> <<"e", "n">>]
HfRowFr == [text |-> <<"o", "u", "i">>, cefr_level |-> <<"C", "2">>, language |-> <<"f", "r">>]

HfUnavailable == [ok |-> FALSE, rows |-> <<>>]

HfSources ==
  { HfUnavailable,
    [ok |-> TRUE, rows |-> <<HfRowFr>>],
    [ok |-> TRUE, rows |-> <<HfRowA2, HfRowFr, HfRowNA>>] }

\* train_deberta has no source flags and does not load a remote dataset
AsmCfgs ==
  [variant : {"train_model", "train_minilm"}, use_stm : BOOLEAN, use_wi : BOOLEAN, use_hf : BOOLEAN,
   max_samples : 0..MaxMaxSamples]
    \cup [variant : {"train_deberta"}, use_stm : {TRUE}, use_wi : {TRUE}, use_hf : {FALSE},
          max_samples : 0..MaxMaxSamples]

\* the rows train_deberta splits without a seed: each speech record
\* DebertaOversample times and the written records
SplitRows(env) ==
  DebertaOversample * Len(ReadStmFiles(StmTrainFiles(env))) + Len(parse_wi_corpus(env.wi))

AsmEnvs(cfg) ==
  IF cfg.variant = "train_deberta"
  THEN {env \in [train : TrainFiles, dev : DevFiles, eval : ShortEvalFiles, wi : WiFiles,
                 hf : {HfUnavailable}] : SplitRows(env) <= MaxSplitRows}
  ELSE [train : TrainFiles, dev : DevFiles, eval : EvalFiles, wi : WiFiles, hf : HfSources]

Init ==
  /\ StmIdle /\ ChunkIdle /\ AugIdle /\ LibIdle
  /\ asm_pc = "stm"
  /\ asm_cfg \in AsmCfgs
  /\ asm_env \in AsmEnvs(asm_cfg)
  /\ asm_stm_parsed = <<>> /\ asm_eval_entries = <<>> /\ asm_all = <<>>
  /\ asm_stm_test = <<>> /\ asm_combined = <<>> /\ asm_aug_in = <<>>
  /\ asm_dataset = <<>> /\ asm_train = <<>> /\ asm_eval = <<>>
  /\ asm_post_eval = <<>> /\ asm_error = "none" /\ asm_diag = <<>>

IsTrainModel == asm_cfg.variant = "train_model"
IsDeberta == asm_cfg.variant = "train_deberta"
IsMinilm == asm_cfg.variant = "train_minilm"
\* the two assemblers with source flags
IsTrainer == IsTrainModel \/ IsMinilm

\* train_model, section 1: the speech files, oversampling, the held-out set
TM_LoadStm ==
  /\ asm_pc = "stm" /\ IsTrainModel
  /\ IF asm_cfg.use_stm
     THEN LET train_entries == ReadStmFiles(StmTrainFiles(asm_env))
              eval_entries == ReadStm(asm_env.eval)
          IN /\ asm_stm_parsed' = train_entries
             /\ asm_eval_entries' = eval_entries
             /\ asm_all' = IF train_entries # <<>>
                           THEN Append(asm_all, Repeat(train_entries, TrainerOversample))
                           ELSE asm_all
             /\ asm_stm_test' = IF eval_entries # <<>> THEN <<eval_entries>> ELSE <<>>
             /\ asm_diag' = asm_diag \o StmWarnings(StmTrainFiles(asm_env))
     ELSE UNCHANGED <<asm_stm_parsed, asm_eval_entries, asm_all, asm_stm_test, asm_diag>>
  /\ asm_pc' = "wi"
  /\ UNCHANGED <<asm_cfg, asm_env, asm_combined, asm_aug_in, asm_dataset, asm_train,
                 asm_eval, asm_post_eval, asm_error>>
  /\ UNCHANGED <<stmVars, chunkVars, augVars, libVars>>

\* train_model, section 2: the written corpus
TM_LoadWi ==
  /\ asm_pc = "wi" /\ IsTrainModel
  /\ IF asm_cfg.use_wi
     THEN LET wi_entries == parse_wi_corpus(asm_env.wi)
          IN /\ asm_all' = IF wi_entries # <<>> THEN Append(asm_all, wi_entries) ELSE asm_all
             /\ asm_diag' = asm_diag \o WiWarnings(asm_env.wi)
     ELSE UNCHANGED <<asm_all, asm_diag>>
  /\ asm_pc' = "hf"
  /\ UNCHANGED <<asm_cfg, asm_env, asm_stm_parsed, asm_eval_entries, asm_stm_test,
                 asm_combined, asm_aug_in, asm_dataset, asm_train, asm_eval,
                 asm_post_eval, asm_error>>
  /\ UNCHANGED <<stmVars, chunkVars, augVars, libVars>>

\* train_model, section 3: the remote dataset
TM_LoadHf ==
  /\ asm_pc = "hf" /\ IsTrainModel
  /\ IF asm_cfg.use_hf /\ asm_env.hf.ok
     THEN /\ asm_all' = Append(asm_all, MapHfDataset(asm_env.hf.rows))
          /\ UNCHANGED asm_diag
     ELSE /\ UNCHANGED asm_all
          /\ asm_diag' = IF asm_cfg.use_hf
                         THEN Append(asm_diag, [source |-> "hf", kind |-> "could_not_load"])
                         ELSE asm_diag
  /\ asm_pc' = "combine"
  /\ UNCHANGED <<asm_cfg, asm_env, asm_stm_parsed, asm_eval_entries, asm_stm_test,
                 asm_combined, asm_aug_in, asm_dataset, asm_train, asm_eval,
                 asm_post_eval, asm_error>>
  /\ UNCHANGED <<stmVars, chunkVars, augVars, libVars>>

\* train_model: raise ValueError("No training data loaded!") or concatenate
TM_Combine ==
  /\ asm_pc = "combine" /\ IsTrainModel
  /\ IF asm_all = <<>>
     THEN /\ asm_error' = "no_training_data"
          /\ asm_pc' = "failed"
          /\ UNCHANGED asm_combined
     ELSE /\ asm_combined' = Flatten(asm_all)
          /\ asm_pc' = "shuffle"
          /\ UNCHANGED asm_error
  /\ UNCHANGED <<asm_diag, asm_cfg, asm_env, asm_stm_parsed, asm_eval_entries, asm_all,
                 asm_stm_test, asm_aug_in, asm_dataset, asm_train, asm_eval,
                 asm_post_eval>>
  /\ UNCHANGED <<stmVars, chunkVars, augVars, libVars>>

\* train_model: shuffle(seed=42), then the max_samples cuts
TM_Shuffle ==
  /\ asm_pc = "shuffle" /\ IsTrainModel
  /\ LET dataset == Shuffled(asm_combined, ShuffleSeed)
     IN IF asm_cfg.max_samples # 0
        THEN /\ asm_dataset' = FirstN(dataset, asm_cfg.max_samples)
             /\ asm_stm_test' = IF asm_stm_test # <<>>
                                THEN <<FirstN(asm_stm_test[1], EvalSampleCap)>>
                                ELSE asm_stm_test
        ELSE /\ asm_dataset' = dataset
             /\ UNCHANGED asm_stm_test
  /\ asm_pc' = "split"
  /\ UNCHANGED <<asm_diag, asm_cfg, asm_env, asm_stm_parsed, asm_eval_entries, asm_all,
                 asm_combined, asm_aug_in, asm_train, asm_eval, asm_post_eval,
                 asm_error>>
  /\ UNCHANGED <<stmVars, chunkVars, augVars, libVars>>

\* train_model: train_test_split(test_size=0.01, seed=42) and the datasets
\* given to Trainer(train_dataset=..., eval_dataset=...)
TM_Train ==
  /\ asm_pc = "split" /\ IsTrainModel
  /\ IF SplitRaises(Len(asm_dataset), TrainerTestPct)
     THEN /\ asm_error' = "split"
          /\ asm_pc' = "failed"
          /\ UNCHANGED <<asm_train, asm_eval>>
     ELSE LET split == TrainTestSplit(asm_dataset, TrainerTestPct, ShuffleSeed)
          IN /\ asm_train' = split.train
             /\ asm_eval' = IF asm_stm_test # <<>> THEN asm_stm_test[1] ELSE split.test
             /\ asm_pc' = "trained"
             /\ UNCHANGED asm_error
  /\ UNCHANGED <<asm_diag, asm_cfg, asm_env, asm_stm_parsed, asm_eval_entries, asm_all,
                 asm_stm_test, asm_combined, asm_aug_in, asm_dataset, asm_post_eval>>
  /\ UNCHANGED <<stmVars, chunkVars, augVars, libVars>>

\* the copies train_cefr_minilm.py calls
MinilmReadStm(file) == IF Len(file) # 1 THEN <<>> ELSE minilm_parse_stm_file(file[1])

MinilmReadStmFiles(files) == Flatten([k \in 1..Len(files) |-> MinilmReadStm(files[k])])

minilm_map_hf_labels(example) ==
  LET label == Strip(Upper(example.cefr_level))
  IN [text |-> example.text,
      label |-> IF label \in DOMAIN MinilmLABEL2ID THEN MinilmLABEL2ID[label] ELSE 0,
      source |-> "hf"]

MinilmMapHfDataset(rows) ==
  LET en == FilterEnglish(rows)
  IN [k \in 1..Len(en) |-> minilm_map_hf_labels(en[k])]

\* train of train_cefr_minilm.py, section 1: the speech files read with
\* `except Exception: pass`, oversampling, the held-out set
ML_LoadStm ==
  /\ asm_pc = "stm" /\ IsMinilm
  /\ IF asm_cfg.use_stm
     THEN LET train_entries == MinilmReadStmFiles(StmTrainFiles(asm_env))
              eval_entries == MinilmReadStm(asm_env.eval)
          IN /\ asm_stm_parsed' = train_entries
             /\ asm_eval_entries' = eval_entries
             /\ asm_all' = IF train_entries # <<>>
                           THEN Append(asm_all, Repeat(train_entries, TrainerOversample))
                           ELSE asm_all
             /\ asm_stm_test' = IF eval_entries # <<>> THEN <<eval_entries>> ELSE <<>>
     ELSE UNCHANGED <<asm_stm_parsed, asm_eval_entries, asm_all, asm_stm_test>>
  /\ UNCHANGED asm_diag
  /\ asm_pc' = "wi"
  /\ UNCHANGED <<asm_cfg, asm_env, asm_combined, asm_aug_in, asm_dataset, asm_train,
                 asm_eval, asm_post_eval, asm_error>>
  /\ UNCHANGED <<stmVars, chunkVars, augVars, libVars>>

\* train of train_cefr_minilm.py, section 2: the written corpus
ML_LoadWi ==
  /\ asm_pc = "wi" /\ IsMinilm
  /\ IF asm_cfg.use_wi
     THEN LET wi_entries == minilm_parse_wi_corpus(asm_env.wi)
          IN /\ asm_all' = IF wi_entries # <<>> THEN Append(asm_all, wi_entries) ELSE asm_all
             /\ asm_diag' = asm_diag \o WiWarnings(asm_env.wi)
     ELSE UNCHANGED <<asm_all, asm_diag>>
  /\ asm_pc' = "hf"
  /\ UNCHANGED <<asm_cfg, asm_env, asm_stm_parsed, asm_eval_entries, asm_stm_test,
                 asm_combined, asm_aug_in, asm_dataset, asm_train, asm_eval,
                 asm_post_eval, asm_error>>
  /\ UNCHANGED <<stmVars, chunkVars, augVars, libVars>>

\* train of train_cefr_minilm.py, section 3: the remote dataset
ML_LoadHf ==
  /\ asm_pc = "hf" /\ IsMinilm
  /\ IF asm_cfg.use_hf /\ asm_env.hf.ok
     THEN /\ asm_all' = Append(asm_all, MinilmMapHfDataset(asm_env.hf.rows))
          /\ UNCHANGED asm_diag
     ELSE /\ UNCHANGED asm_all
          /\ asm_diag' = IF asm_cfg.use_hf
                         THEN Append(asm_diag, [source |-> "hf", kind |-> "could_not_load"])
                         ELSE asm_diag
  /\ asm_pc' = "combine"
  /\ UNCHANGED <<asm_cfg, asm_env, asm_stm_parsed, asm_eval_entries, asm_stm_test,
                 asm_combined, asm_aug_in, asm_dataset, asm_train, asm_eval,
                 asm_post_eval, asm_error>>
  /\ UNCHANGED <<stmVars, chunkVars, augVars, libVars>>

\* train of train_cefr_minilm.py: raise ValueError("No training data loaded!") or concatenate
ML_Combine ==
  /\ asm_pc = "combine" /\ IsMinilm
  /\ IF asm_all = <<>>
     THEN /\ asm_error' = "no_training_data"
          /\ asm_pc' = "failed"
          /\ UNCHANGED asm_combined
     ELSE /\ asm_combined' = Flatten(asm_all)
          /\ asm_pc' = "shuffle"
          /\ UNCHANGED asm_error
  /\ UNCHANGED <<asm_diag, asm_cfg, asm_env, asm_stm_parsed, asm_eval_entries, asm_all,
                 asm_stm_test, asm_aug_in, asm_dataset, asm_train, asm_eval,
                 asm_post_eval>>
  /\ UNCHANGED <<stmVars, chunkVars, augVars, libVars>>

\* train of train_cefr_minilm.py: shuffle(seed=42), then the max_samples cuts
ML_Shuffle ==
  /\ asm_pc = "shuffle" /\ IsMinilm
  /\ LET dataset == Shuffled(asm_combined, ShuffleSeed)
     IN IF asm_cfg.max_samples # 0
        THEN /\ asm_dataset' = FirstN(dataset, asm_cfg.max_samples)
             /\ asm_stm_test' = IF asm_stm_test # <<>>
                                THEN <<FirstN(asm_stm_test[1], EvalSampleCap)>>
                                ELSE asm_stm_test
        ELSE /\ asm_dataset' = dataset
             /\ UNCHANGED asm_stm_test
  /\ asm_pc' = "split"
  /\ UNCHANGED <<asm_diag, asm_cfg, asm_env, asm_stm_parsed, asm_eval_entries, asm_all,
                 asm_combined, asm_aug_in, asm_train, asm_eval, asm_post_eval,
                 asm_error>>
  /\ UNCHANGED <<stmVars, chunkVars, augVars, libVars>>

\* train of train_cefr_minilm.py: train_test_split(test_size=0.01, seed=42) and the datasets
\* given to Trainer(train_dataset=..., eval_dataset=...)
ML_Train ==
  /\ asm_pc = "split" /\ IsMinilm
  /\ IF SplitRaises(Len(asm_dataset), TrainerTestPct)
     THEN /\ asm_error' = "split"
          /\ asm_pc' = "failed"
          /\ UNCHANGED <<asm_train, asm_eval>>
     ELSE LET split == TrainTestSplit(asm_dataset, TrainerTestPct, ShuffleSeed)
          IN /\ asm_train' = split.train
             /\ asm_eval' = IF asm_stm_test # <<>> THEN asm_stm_test[1] ELSE split.test
             /\ asm_pc' = "trained"
             /\ UNCHANGED asm_error
  /\ UNCHANGED <<asm_diag, asm_cfg, asm_env, asm_stm_parsed, asm_eval_entries, asm_all,
                 asm_stm_test, asm_combined, asm_aug_in, asm_dataset, asm_post_eval>>
  /\ UNCHANGED <<stmVars, chunkVars, augVars, libVars>>

\* train_deberta: the speech files, each oversampled as it is read
DB_LoadStm ==
  /\ asm_pc = "stm" /\ IsDeberta
  /\ LET files == StmTrainFiles(asm_env)
     IN IF \E k \in 1..Len(files) : FileExists(files[k]) /\ ~FileOpens(files[k])
        THEN /\ asm_error' = "open"
             /\ asm_pc' = "failed"
             /\ UNCHANGED <<asm_stm_parsed, asm_combined>>
        ELSE /\ asm_stm_parsed' = ReadStmFiles(files)
             /\ asm_combined' = asm_combined \o
                  Flatten([k \in 1..Len(files) |->
                             Repeat(ReadStm(files[k]), DebertaOversample)])
             /\ asm_pc' = "wi"
             /\ UNCHANGED asm_error
  /\ UNCHANGED <<asm_diag, asm_cfg, asm_env, asm_eval_entries, asm_all, asm_stm_test,
                 asm_aug_in, asm_dataset, asm_train, asm_eval, asm_post_eval>>
  /\ UNCHANGED <<stmVars, chunkVars, augVars, libVars>>

\* train_deberta: the written corpus, cut to max_samples
DB_LoadWi ==
  /\ asm_pc = "wi" /\ IsDeberta
  /\ LET wi_entries == parse_wi_corpus(asm_env.wi)
     IN asm_combined' = asm_combined \o
          (IF asm_cfg.max_samples # 0 THEN FirstN(wi_entries, asm_cfg.max_samples)
           ELSE wi_entries)
  /\ asm_diag' = asm_diag \o WiWarnings(asm_env.wi)
  /\ asm_pc' = "augment"
  /\ UNCHANGED <<asm_cfg, asm_env, asm_stm_parsed, asm_eval_entries, asm_all,
                 asm_stm_test, asm_aug_in, asm_dataset, asm_train, asm_eval,
                 asm_post_eval, asm_error>>
  /\ UNCHANGED <<stmVars, chunkVars, augVars, libVars>>

\* train_deberta: the augmenter on every text, Dataset.from_dict(text, label)
DB_Augment ==
  /\ asm_pc = "augment" /\ IsDeberta
  /\ LET texts == [k \in 1..Len(asm_combined) |-> asm_combined[k].text]
         labels == [k \in 1..Len(asm_combined) |-> asm_combined[k].label]
     IN \E augmented_texts \in AugmentedLists(texts) :
          /\ asm_aug_in' = texts
          /\ asm_dataset' = [k \in 1..Len(texts) |->
                               [text |-> augmented_texts[k], label |-> labels[k]]]
  /\ asm_pc' = "shuffle"
  /\ UNCHANGED <<asm_diag, asm_cfg, asm_env, asm_stm_parsed, asm_eval_entries, asm_all,
                 asm_stm_test, asm_combined, asm_train, asm_eval, asm_post_eval,
                 asm_error>>
  /\ UNCHANGED <<stmVars, chunkVars, augVars, libVars>>

\* train_deberta: dataset.shuffle(seed=42)
DB_Shuffle ==
  /\ asm_pc = "shuffle" /\ IsDeberta
  /\ asm_dataset' = Shuffled(asm_dataset, ShuffleSeed)
  /\ asm_pc' = "split"
  /\ UNCHANGED <<asm_diag, asm_cfg, asm_env, asm_stm_parsed, asm_eval_entries, asm_all,
                 asm_stm_test, asm_combined, asm_aug_in, asm_train, asm_eval,
                 asm_post_eval, asm_error>>
  /\ UNCHANGED <<stmVars, chunkVars, augVars, libVars>>

\* train_deberta: train_test_split(test_size=0.1) without a seed, and the
\* datasets given to Trainer(train_dataset=..., eval_dataset=...)
DB_Train ==
  /\ asm_pc = "split" /\ IsDeberta
  /\ IF SplitRaises(Len(asm_dataset), DebertaTestPct)
     THEN /\ asm_error' = "split"
          /\ asm_pc' = "failed"
          /\ UNCHANGED <<asm_train, asm_eval>>
     ELSE \E split \in UnseededSplits(asm_dataset, DebertaTestPct) :
            /\ asm_train' = split.train
            /\ asm_eval' = split.test
            /\ asm_pc' = "posteval"
            /\ UNCHANGED asm_error
  /\ UNCHANGED <<asm_diag, asm_cfg, asm_env, asm_stm_parsed, asm_eval_entries, asm_all,
                 asm_stm_test, asm_combined, asm_aug_in, asm_dataset, asm_post_eval>>
  /\ UNCHANGED <<stmVars, chunkVars, augVars, libVars>>

\* train_deberta, step 10: the held-out file, evaluated after training
DB_PostEval ==
  /\ asm_pc = "posteval" /\ IsDeberta
  /\ asm_eval_entries' = ReadStm(asm_env.eval)
  /\ asm_post_eval' = [k \in 1..Len(asm_eval_entries') |->
                         [text |-> asm_eval_entries'[k].text,
                          label |-> asm_eval_entries'[k].label]]
  /\ asm_diag' = IF FileExists(asm_env.eval) /\ ~FileOpens(asm_env.eval)
                 THEN Append(asm_diag, [source |-> StmFileNames[3], kind |-> "validation_failed"])
                 ELSE asm_diag
  /\ asm_pc' = "trained"
  /\ UNCHANGED <<asm_cfg, asm_env, asm_stm_parsed, asm_all, asm_stm_test, asm_combined,
                 asm_aug_in, asm_dataset, asm_train, asm_eval, asm_error>>
  /\ UNCHANGED <<stmVars, chunkVars, augVars, libVars>>

Next ==
  \/ TM_LoadStm \/ TM_LoadWi \/ TM_LoadHf \/ TM_Combine \/ TM_Shuffle \/ TM_Train
  \/ ML_LoadStm \/ ML_LoadWi \/ ML_LoadHf \/ ML_Combine \/ ML_Shuffle \/ ML_Train
  \/ DB_LoadStm \/ DB_LoadWi \/ DB_Augment \/ DB_Shuffle \/ DB_Train \/ DB_PostEval

Spec == Init /\ [][Next]_vars

(***************************************************************************)
(* A level string given to the label mapping of every component            *)
(***************************************************************************)
MaxLevelLen == 3

LevelChars == {"A", "B", "C", "1", "2", "+", "-", " ", "b"}

LevelStrings == SeqsUpTo(LevelChars, MaxLevelLen)

InitLevel ==
  /\ StmIdle /\ ChunkIdle /\ AugIdle /\ AsmIdle /\ WiIdle /\ UcIdle /\ DupIdle
  /\ lvl_pc = "ready"
  /\ lvl_level \in LevelStrings
  /\ lvl_ids = <<>>

MapLevel ==
  /\ lvl_pc = "ready"
  /\ lvl_ids' = [stm |-> StmLevelId(lvl_level), wi |-> WiLevelId(lvl_level),
                 hf |-> HfLevelId(lvl_level), uc |-> UcLevelId(lvl_level)]
  /\ lvl_pc' = "done"
  /\ UNCHANGED <<lvl_level, stmVars, chunkVars, augVars, asmVars, wiVars, ucVars, dupVars>>

NextLevel == MapLevel

SpecLevel == InitLevel /\ [][NextLevel]_vars

(***************************************************************************)
(* A call of load_universal_cefr(max_samples, min_words, max_words); the   *)
(* hub answers each load_dataset when it is made.  max_samples 0 stands    *)
(* for None.                                                               *)
(***************************************************************************)
MaxUcRows == 1
MaxUcSamples == 1
\* the hub answers with datasets that keep all_entries within this many records
MaxUcEntries == 3

UcTextOne == <<"a">>
UcTextTwo == <<"a", " ", "b", ".">>
UcTextThree == <<"a", " ", "b", " ", "c">>
UcTextFour == <<"a", " ", "b", ".", " ", "c", " ", "d", ".">>

\* rows of the dataset with numeric levels
UcNumericRows ==
  { [text |-> StrCell(UcTextTwo), level |-> IntLevel(<<"2">>)],
    [text |-> StrCell(UcTextFour), level |-> StrLevel(<<" ", "3", " ">>)],
    [text |-> StrCell(UcTextOne), level |-> IntLevel(<<"0">>)],
    [text |-> StrCell(UcTextTwo), level |-> IntLevel(<<"6">>)],
    [text |-> NaNCell, level |-> IntLevel(<<"1">>)],
    [text |-> StrCell(UcTextTwo), level |-> InfLevel] }

\* rows of the datasets with string levels
UcStringRows ==
  { [text |-> StrCell(UcTextTwo), level |-> StrLevel(<<"b", "2", "+">>)],
    [text |-> StrCell(UcTextFour), level |-> StrLevel(<<"C", "1">>)],
    [text |-> StrCell(UcTextOne), level |-> StrLevel(<<" ", "A", "1", " ">>)],
    [text |-> StrCell(UcTextThree), level |-> StrLevel(<<"A", "2", "-">>)],
    [text |-> StrCell(UcTextTwo), level |-> StrLevel(<<"C">>)],
    [text |-> StrCell(<<" ", " ">>), level |-> NoneLevel] }

UcRows(k) == IF DATASET_CONFIGS[k].level_is_numeric THEN UcNumericRows ELSE UcStringRows

UcDatasets(k) ==
  {[ok |-> FALSE, rows |-> <<>>, iter_ok |-> TRUE]}
    \cup [ok : {TRUE}, rows : SeqsUpTo(UcRows(k), MaxUcRows), iter_ok : BOOLEAN]

UcArgs == [max_samples : 0..MaxUcSamples, min_words : {1, 2}, max_words : {2, 3}]

InitUc ==
  /\ StmIdle /\ ChunkIdle /\ AugIdle /\ AsmIdle /\ LvlIdle /\ WiIdle /\ DupIdle
  /\ uc_pc = "import"
  /\ uc_args \in UcArgs
  /\ uc_lib \in BOOLEAN
  /\ uc_k = 0
  /\ uc_dataset = <<>> /\ uc_entries = <<>> /\ uc_all_entries = <<>>
  /\ uc_log = <<>> /\ uc_result = <<>>

\* from datasets import load_dataset, return [] on ImportError
UC_Import ==
  /\ uc_pc = "import"
  /\ IF uc_lib
     THEN /\ uc_pc' = "load"
          /\ uc_k' = 1
          /\ UNCHANGED uc_log
     ELSE /\ uc_pc' = "done"
          /\ uc_log' = Append(uc_log, [msg |-> "not_installed", k |-> 0, n |-> 0])
          /\ UNCHANGED uc_k
  /\ UNCHANGED <<uc_args, uc_lib, uc_dataset, uc_entries, uc_all_entries, uc_result>>
  /\ UNCHANGED <<stmVars, chunkVars, augVars, asmVars, lvlVars, wiVars, dupVars>>

\* one turn of the loop over DATASET_CONFIGS: the try block and its handler
UC_LoadDataset ==
  /\ uc_pc = "load"
  /\ \E dataset \in UcDatasets(uc_k) :
       \E outcome \in {UcDataset(DATASET_CONFIGS[uc_k], dataset,
                                 uc_args.min_words, uc_args.max_words)} :
         \E entries \in {IF outcome.raised THEN <<>> ELSE outcome.entries} :
           /\ Len(uc_all_entries) + Len(entries) <= MaxUcEntries
           /\ uc_dataset' = dataset
           /\ uc_entries' = entries
           /\ uc_all_entries' = uc_all_entries \o entries
           /\ uc_log' = uc_log \o UcDatasetLog(uc_k, outcome)
  /\ uc_k' = uc_k + 1
  /\ uc_pc' = IF uc_k = Len(DATASET_CONFIGS) THEN "finish" ELSE "load"
  /\ UNCHANGED <<uc_args, uc_lib, uc_result>>
  /\ UNCHANGED <<stmVars, chunkVars, augVars, asmVars, lvlVars, wiVars, dupVars>>

\* after the loop: nothing loaded, or random.shuffle, the cut and the return
UC_Finish ==
  /\ uc_pc = "finish"
  /\ IF uc_all_entries = <<>>
     THEN /\ uc_log' = Append(uc_log, [msg |-> "all_failed", k |-> 0, n |-> 0])
          /\ uc_result' = <<>>
     ELSE \E shuffled \in AllOrders(uc_all_entries) :
            LET cut == IF uc_args.max_samples # 0 /\ Len(shuffled) > uc_args.max_samples
                       THEN FirstN(shuffled, uc_args.max_samples)
                       ELSE shuffled
            IN /\ uc_result' = cut
               /\ uc_log' = Append(uc_log, [msg |-> "total", k |-> 0, n |-> Len(cut)])
  /\ uc_pc' = "done"
  /\ UNCHANGED <<uc_args, uc_lib, uc_k, uc_dataset, uc_entries, uc_all_entries>>
  /\ UNCHANGED <<stmVars, chunkVars, augVars, asmVars, lvlVars, wiVars, dupVars>>

NextUc == UC_Import \/ UC_LoadDataset \/ UC_Finish

SpecUc == InitUc /\ [][NextUc]_vars

(***************************************************************************)
(* A call of parse_wi_corpus(tsv_path) on a file of up to MaxWiRows rows   *)
(***************************************************************************)
MaxWiRows == 2

WiTexts ==
  { NaNCell, StrCell(<<" ", " ">>), StrCell(UcTextTwo), StrCell(WiText5),
    StrCell(SentencesDoc(30, 2)) }

WiLevels ==
  { NaNCell, StrCell(<<"C">>), StrCell(<<"A", "2">>), StrCell(<<"b", "1", "+">>),
    StrCell(<<" ", "c", "2", "-", " ">>) }

WiCallFiles ==
  { [exists |-> FALSE, readable |-> FALSE, rows |-> <<>>],
    [exists |-> TRUE, readable |-> FALSE, rows |-> <<>>] }
    \cup [exists : {TRUE}, readable : {TRUE},
          rows : SeqsUpTo([text : WiTexts, automarker_cefr_level : WiLevels], MaxWiRows)]

InitWi ==
  /\ StmIdle /\ ChunkIdle /\ AugIdle /\ AsmIdle /\ LvlIdle /\ UcIdle /\ DupIdle
  /\ wi_pc = "start"
  /\ wi_file \in WiCallFiles
  /\ wi_returned = <<>>

ParseWi ==
  /\ wi_pc = "start"
  /\ wi_returned' = parse_wi_corpus(wi_file)
  /\ wi_pc' = "done"
  /\ UNCHANGED <<wi_file, stmVars, chunkVars, augVars, asmVars, lvlVars, ucVars, dupVars>>

NextWi == ParseWi

SpecWi == InitWi /\ [][NextWi]_vars

(***************************************************************************)
(* A helper of cefr_utils.py and the copy another file defines, called on  *)
(* the same input and, for the augmenter, the same draws                   *)
(***************************************************************************)
MaxDupTokens == 3

DupDocs ==
  {m \o Join(ts, sep) \o m : ts \in SeqsUpTo(DocTokens, MaxDupTokens),
                             sep \in DocSeparators, m \in DocMargins}

DupChunkCalls ==
  [text : DupDocs, min_words : 1..MaxMinWords, max_words : 1..MaxMaxWords]
    \cup [text : LongDocs, min_words : {DefaultMinWords}, max_words : {DefaultMaxWords}]

\* draws on both sides of each cutoff of the loop body, and of the skip test
DupWordDraws == {DropCut - 1, DropCut, SwapCut - 1, SwapCut, DeleteCut - 1, DeleteCut}

DupSkipDraws == {SkipCut - 1, SkipCut}

DupRawIndexes == 0..3

InitDup ==
  /\ StmIdle /\ ChunkIdle /\ AugIdle /\ AsmIdle /\ LvlIdle /\ WiIdle /\ UcIdle
  /\ dup_pc = "ready"
  /\ \/ dup_fn \in {"parse_stm_file", "analyze_data"} /\ dup_input \in StmContents
     \/ dup_fn = "chunk_text" /\ dup_input \in DupChunkCalls
     \/ dup_fn = "parse_wi_corpus" /\ dup_input \in WiCallFiles
     \/ dup_fn = "augment_text_with_noise" /\ dup_input \in AugTexts
  /\ dup_shared = <<>> /\ dup_copy = <<>>

\* parse_stm_file of cefr_utils.py and of train_cefr_minilm.py
DupParseStm ==
  /\ dup_pc = "ready" /\ dup_fn = "parse_stm_file"
  /\ dup_shared' = parse_stm_file(dup_input)
  /\ dup_copy' = minilm_parse_stm_file(dup_input)
  /\ dup_pc' = "done"
  /\ UNCHANGED <<dup_fn, dup_input>>
  /\ UNCHANGED <<stmVars, chunkVars, augVars, asmVars, lvlVars, wiVars, ucVars>>

\* parse_stm_file of cefr_utils.py and of analyze_data.py
DupAnalyze ==
  /\ dup_pc = "ready" /\ dup_fn = "analyze_data"
  /\ dup_shared' = parse_stm_file(dup_input)
  /\ dup_copy' = analyze_parse_stm_file(dup_input)
  /\ dup_pc' = "done"
  /\ UNCHANGED <<dup_fn, dup_input>>
  /\ UNCHANGED <<stmVars, chunkVars, augVars, asmVars, lvlVars, wiVars, ucVars>>

\* chunk_text of cefr_utils.py and of train_cefr_minilm.py
DupChunkText ==
  /\ dup_pc = "ready" /\ dup_fn = "chunk_text"
  /\ dup_shared' = chunk_text(dup_input.text, dup_input.min_words, dup_input.max_words)
  /\ dup_copy' = minilm_chunk_text(dup_input.text, dup_input.min_words, dup_input.max_words)
  /\ dup_pc' = "done"
  /\ UNCHANGED <<dup_fn, dup_input>>
  /\ UNCHANGED <<stmVars, chunkVars, augVars, asmVars, lvlVars, wiVars, ucVars>>

\* parse_wi_corpus of cefr_utils.py and of train_cefr_minilm.py
DupParseWi ==
  /\ dup_pc = "ready" /\ dup_fn = "parse_wi_corpus"
  /\ dup_shared' = parse_wi_corpus(dup_input)
  /\ dup_copy' = minilm_parse_wi_corpus(dup_input)
  /\ dup_pc' = "done"
  /\ UNCHANGED <<dup_fn, dup_input>>
  /\ UNCHANGED <<stmVars, chunkVars, augVars, asmVars, lvlVars, wiVars, ucVars>>

\* augment_text_with_noise of cefr_utils.py and of train_cefr_deberta.py,
\* both reading the same draws
DupAugment ==
  /\ dup_pc = "ready" /\ dup_fn = "augment_text_with_noise"
  /\ \E r0 \in DupSkipDraws :
       \E draws \in [1..WordCount(dup_input) -> [r : DupWordDraws, u : DupRawIndexes]] :
         /\ dup_shared' = AugmentWithDraws(dup_input, r0, draws)
         /\ dup_copy' = deberta_augment_text_with_noise(dup_input, r0, draws)
  /\ dup_pc' = "done"
  /\ UNCHANGED <<dup_fn, dup_input>>
  /\ UNCHANGED <<stmVars, chunkVars, augVars, asmVars, lvlVars, wiVars, ucVars>>

NextDup == DupParseStm \/ DupAnalyze \/ DupChunkText \/ DupParseWi \/ DupAugment

SpecDup == InitDup /\ [][NextDup]_vars

(***************************************************************************)
(* Properties                                                              *)
(***************************************************************************)
Range(xs) == {xs[k] : k \in 1..Len(xs)}

Count(xs, v) == Cardinality({k \in 1..Len(xs) : xs[k] = v})

Min(a, b) == IF a < b THEN a ELSE b

\* the words of a list of chunks, in order
WordsOfAll(cs) == Flatten([k \in 1..Len(cs) |-> SplitWords(cs[k])])

\* a level string normalised as the vocabulary documents it: trimmed,
\* upper-cased, the modifiers + and - removed
NormalisedLevel(chars) == RemoveChar(RemoveChar(Upper(Strip(chars)), "+"), "-")

\* the bracketed groups of a line: an opening <, one or more characters
\* other than >, the closing >
IsGroupAt(l, i, j) ==
  /\ l[i] = "<" /\ l[j] = ">" /\ j >= i + 2
  /\ \A k \in (i + 1)..(j - 1) : l[k] # ">"

GroupsOf(l) == {g \in (1..Len(l)) \X (1..Len(l)) : IsGroupAt(l, g[1], g[2])}

FirstGroupOf(l) == CHOOSE g \in GroupsOf(l) : \A h \in GroupsOf(l) : g[1] <= h[1]

\* the comma-separated fields of a group, trimmed; the angle brackets at
\* both ends of the group are not part of any field
FieldsOfGroup(l, g) ==
  LET parts == SplitOn(StripChars(SubSeq(l, g[1], g[2]), {"<", ">"}), ",")
  IN [k \in 1..Len(parts) |-> Strip(parts[k])]

LevelIdOf(field) == IF field = <<"C">> THEN 4 ELSE LABEL2ID[field]

\* what the speech-transcript format prescribes for one line
ExpectedStmLine(raw) ==
  LET l == Strip(raw)
  IN IF l = <<>> \/ StartsWith(l, <<";", ";">>) \/ GroupsOf(l) = {} THEN <<>>
     ELSE LET g == FirstGroupOf(l)
              fields == FieldsOfGroup(l, g)
              levels == {k \in 1..Len(fields) : fields[k] \in StmLevelTokens}
              text == Strip(SubSeq(l, g[2] + 1, Len(l)))
          IN IF text = <<>> \/ levels = {} THEN <<>>
             ELSE LET first == CHOOSE k \in levels : \A m \in levels : k <= m
                  IN <<[text |-> text, label |-> LevelIdOf(fields[first]),
                        source |-> "stm"]>>

ExpectedStmFile(content) ==
  LET lines == SplitOn(content, "\n")
  IN Flatten([k \in 1..Len(lines) |-> ExpectedStmLine(lines[k])])

\* C1 (as claimed): every record of the training collection carries a label
\* in 0..5 that is the vocabulary id of the level of a source row or line;
\* a row with an unrecognised level leaves no record.
C1_LabelIsLevelOfRow ==
  (asm_pc \in {"wi", "hf", "combine"} /\ IsTrainer) =>
    \A rec \in Range(Flatten(asm_all)) :
      /\ rec.label \in 0..5
      /\ rec.source = "hf" =>
           \E row \in Range(asm_env.hf.rows) :
             /\ row.text = rec.text
             /\ NormalisedLevel(row.cefr_level) \in DOMAIN LABEL2ID
             /\ LABEL2ID[NormalisedLevel(row.cefr_level)] = rec.label
      /\ rec.source = "wi" =>
           \E row \in Range(asm_env.wi.rows) :
             /\ row.automarker_cefr_level.str
             /\ NormalisedLevel(row.automarker_cefr_level.val) \in DOMAIN LABEL2ID
             /\ LABEL2ID[NormalisedLevel(row.automarker_cefr_level.val)] = rec.label
      /\ rec.source = "stm" =>
           \E file \in {asm_env.train, asm_env.dev} :
             file # <<>> /\ rec \in Range(ExpectedStmFile(file[1]))

\* C2 (as claimed): when the document yields a single chunk, chunk_text
\* returns that chunk, whatever its word count.
C2_OnlyChunkIsKept ==
  (chunk_pc = "done" /\ Len(chunk_valid) = 1) => chunk_out = chunk_valid

\* C3 (as claimed): the returned chunks joined by single spaces give the
\* whole word sequence of the document.
C3_JoinReconstructsDocument ==
  chunk_pc = "done" =>
    SplitWords(Join(chunk_out, <<" ">>)) = SplitWords(chunk_doc)

\* C3 (amended): the sentence groups before the final filter reconstruct the
\* document word for word; the returned chunks are those groups, in order,
\* without the groups of fewer than min_words words, so their words are the
\* document's words minus the words of the discarded groups, and the whole
\* word sequence when no group is that short.
C3_ChunksAreDocumentMinusShortGroups ==
  chunk_pc = "done" =>
    /\ WordsOfAll(chunk_valid) = SplitWords(chunk_doc)
    /\ WordsOfAll(chunk_out) =
         Flatten([k \in 1..Len(chunk_valid) |->
                    IF WordCount(chunk_valid[k]) >= chunk_min
                    THEN SplitWords(chunk_valid[k]) ELSE <<>>])
    /\ \A k \in 1..Len(chunk_out) : chunk_out[k] \in Range(chunk_valid)
    /\ (\A k \in 1..Len(chunk_valid) : WordCount(chunk_valid[k]) >= chunk_min) =>
         SplitWords(Join(chunk_out, <<" ">>)) = SplitWords(chunk_doc)

\* a document of several groups, one of them discarded and one returned
C3_Witness ==
  /\ chunk_pc = "done"
  /\ Len(chunk_valid) >= 2
  /\ chunk_out # <<>>
  /\ Len(chunk_out) < Len(chunk_valid)

\* C4 (as claimed): the skip branch is taken on the buckets covering 80% of
\* the draw range.
C4_SkipsOnEightyPercent ==
  (aug_action \in {"skip", "perturb"} /\ aug_text # <<>>) =>
    Cardinality({r \in DrawBuckets : SkipsAugmentation(r)}) * 100
      = 80 * Cardinality(DrawBuckets)

\* C4 (amended): on a non-empty text the skip branch is taken exactly when
\* the first draw exceeds 0.8, on the 20 hundredths 80..99: it returns the
\* text unchanged and looks at no word; on the other 80 hundredths the text
\* goes through the per-word loop.
C4_SkipsOnTwentyPercent ==
  (aug_action \in {"skip", "perturb"} /\ aug_text # <<>>) =>
    /\ aug_action = "skip" <=> aug_r \in 80..99
    /\ aug_action = "skip" =>
         aug_pc = "done" /\ aug_result = aug_text /\ aug_i = 0 /\ aug_new_words = <<>>
    /\ aug_action = "perturb" => aug_pc = "words" /\ aug_i = 1
    /\ Cardinality({r \in DrawBuckets : SkipsAugmentation(r)}) * 100
         = 20 * Cardinality(DrawBuckets)

\* a skipped call on the lowest skipping hundredth
C4_Witness ==
  /\ aug_action = "skip" /\ aug_r = 80
  /\ aug_text # <<>> /\ aug_result = aug_text

\* the number of hundredths on which a word of n characters takes a branch
DrawsFor(n, action) == Cardinality({r \in DrawBuckets : WordAction(n, r) = action})

\* C5 (as claimed): of the hundred draws 3 drop a word of fewer than 4
\* characters, 5 transpose a word of more than 3, 3 delete a character of
\* a word of more than 4, and at least 89 leave the word unchanged.
C5_EffectiveChances ==
  (aug_pc = "words" /\ aug_action \in {"drop", "swap", "delete", "keep"}) =>
    LET n == Len(aug_words[aug_i - 1])
    IN /\ n < 4 => DrawsFor(n, "drop") = 3
       /\ n > 3 => DrawsFor(n, "swap") = 5
       /\ n > 4 => DrawsFor(n, "delete") = 3
       /\ DrawsFor(n, "keep") >= 89

\* C6 (as claimed): two calls of the augmenter on the same text, no seed
\* having changed in between, return the same text.
C6_SameInputSameOutput ==
  (aug_pc = "done" /\ aug_calls = 2) => aug_result = aug_prev

\* the records every enabled source has contributed once assembly is over
AssembledRecords == IF IsTrainer THEN Flatten(asm_all) ELSE asm_combined

\* C7 (as claimed): a run that has assembled no record ends in the 'no
\* training data' error and never goes on to shuffling or training.
C7_EmptyAssemblyRaises ==
  (asm_pc \in {"shuffle", "split", "posteval", "trained", "failed"}
     /\ AssembledRecords = <<>>) =>
    asm_pc = "failed" /\ asm_error = "no_training_data"

\* text and label of the records parsed from eval-asr.stm
HeldOut == {<<r.text, r.label>> : r \in Range(ReadStm(asm_env.eval))}

\* none of the held-out records is in the training collection or was given
\* to the augmenter
HeldOutKeptApart ==
  LET training == Range(Flatten(asm_all)) \cup Range(asm_combined)
                    \cup Range(asm_train) \cup Range(asm_dataset)
  IN (training # {} \/ asm_aug_in # <<>>) =>
       \A h \in HeldOut :
         /\ \A r \in training : <<r.text, r.label>> # h
         /\ \A t \in Range(asm_aug_in) : h[1] # t

\* C8 (as claimed): the held-out records stay out of training, and the
\* validation set given to the trainer is the parsed content of the file
\* whatever the flags and max_samples.
C8_ValidationIsWholeEvalFile ==
  /\ HeldOutKeptApart
  /\ asm_pc = "trained" => asm_eval = ReadStm(asm_env.eval)

\* eval and train are the two parts of a split of dataset: the test part has
\* the size the library gives it and the parts share the records out
SplitsInto(dataset, eval, train, pct) ==
  /\ Len(eval) = SplitTestCount(Len(dataset), pct)
  /\ \A v \in Range(dataset) \cup Range(eval) \cup Range(train) :
       Count(eval, v) + Count(train, v) = Count(dataset, v)

\* C8 (amended): the held-out records stay out of training; train_model and
\* train of train_cefr_minilm.py
\* validate on the parsed content of the file when use_stm is on and the
\* file yields a record, cut to its first 100 records when max_samples is
\* set, and on the test split of the training corpus otherwise;
\* train_deberta validates on a split of the training corpus and evaluates
\* the whole file only after training.
C8_ValidationIsEvalFileUpToCap ==
  /\ HeldOutKeptApart
  /\ (asm_pc = "trained" /\ IsTrainer) =>
       \A parsed \in {ReadStm(asm_env.eval)} :
         IF asm_cfg.use_stm /\ parsed # <<>>
         THEN asm_eval = IF asm_cfg.max_samples # 0
                         THEN SubSeq(parsed, 1, Min(100, Len(parsed)))
                         ELSE parsed
         ELSE SplitsInto(asm_dataset, asm_eval, asm_train, TrainerTestPct)
  /\ (asm_pc = "trained" /\ IsDeberta) =>
       \A parsed \in {ReadStm(asm_env.eval)} :
         /\ SplitsInto(asm_dataset, asm_eval, asm_train, DebertaTestPct)
         /\ Len(asm_post_eval) = Len(parsed)
         /\ \A k \in 1..Len(parsed) :
              /\ asm_post_eval[k].text = parsed[k].text
              /\ asm_post_eval[k].label = parsed[k].label

\* a train_model run with max_samples set and more than 100 held-out records
C8_Witness ==
  /\ asm_pc = "trained" /\ IsTrainModel
  /\ asm_cfg.use_stm /\ asm_cfg.max_samples # 0
  /\ Len(ReadStm(asm_env.eval)) > 100
  /\ Len(asm_eval) = 100

\* the training collection of a flagged assembler before it is shuffled
UnshuffledCorpus ==
  IF asm_pc \in {"wi", "hf", "combine"} THEN Flatten(asm_all) ELSE asm_combined

\* C9: with N records parsed from the speech training files, the collection
\* train_model (or train of train_cefr_minilm.py) assembles holds, before shuffling, 4N speech records, each
\* value four times as often as among the N.
C9_OversampledFourTimes ==
  (asm_pc \in {"wi", "hf", "combine", "shuffle"} /\ IsTrainer) =>
    LET given == IF asm_cfg.use_stm
                 THEN ReadStm(asm_env.train) \o ReadStm(asm_env.dev)
                 ELSE <<>>
        speech == SelectSeq(UnshuffledCorpus, LAMBDA r : r.source = "stm")
    IN /\ Len(speech) = 4 * Len(given)
       /\ \A v \in Range(given) \cup Range(speech) :
            Count(speech, v) = 4 * Count(given, v)

\* two records from the training files, eight in the combined corpus
C9_Witness ==
  /\ asm_pc = "shuffle" /\ IsTrainModel /\ asm_cfg.use_stm
  /\ Len(ReadStm(asm_env.train) \o ReadStm(asm_env.dev)) = 2
  /\ Len(SelectSeq(asm_combined, LAMBDA r : r.source = "stm")) = 8

\* C10: parse_stm_file returns, line by line, one record for a line that is
\* neither blank nor a comment, has a bracketed group with a level field and
\* text after it (label of the first level field, trimmed text, source
\* "stm"), and nothing for any other line.
C10_OneRecordPerLabelledLine ==
  stm_pc = "done" => stm_entries = ExpectedStmFile(stm_content)

\* a line whose level is not the first field: <Q4,B2> hi
C10_Witness ==
  /\ stm_pc = "done"
  /\ stm_content = <<"<", "Q", "4", ",", "B", "2", ">", " ", "h", "i", " ">>
  /\ stm_entries = <<[text |-> <<"h", "i">>, label |-> 3, source |-> "stm"]>>

(***************************************************************************)
(* C11: level strings are mapped to ids identically in every component     *)
(* (speech-transcript parser, written-corpus parser, remote-dataset        *)
(* adapters): each of the six canonical codes maps to its documented id,   *)
(* the bare "C" to the id of C1, a code with a "+" or "-" suffix to the id *)
(* of its base code, and every other string is unmapped.  The string is    *)
(* read without its surrounding whitespace.                                *)
(***************************************************************************)
DocumentedLevelId(level) ==
  LET s == Strip(level)
      base == IF Len(s) = 3 /\ s[3] \in {"+", "-"} THEN SubSeq(s, 1, 2) ELSE s
  IN IF base \in DOMAIN LABEL2ID THEN LABEL2ID[base]
     ELSE IF s = <<"C">> THEN LABEL2ID[<<"C", "1">>]
     ELSE Unmapped

C11_LevelsMappedAlike ==
  lvl_pc = "done" =>
    /\ lvl_ids.stm = DocumentedLevelId(lvl_level)
    /\ lvl_ids.wi = DocumentedLevelId(lvl_level)
    /\ lvl_ids.hf = DocumentedLevelId(lvl_level)
    /\ lvl_ids.uc = DocumentedLevelId(lvl_level)

(***************************************************************************)
(* C12: every record of the corpus handed to the trainer has a text with   *)
(* at least one non-whitespace token, also after noise augmentation has    *)
(* been applied to the texts of the training records.                      *)
(***************************************************************************)
C12_TrainerTextsNonBlank ==
  asm_pc \in {"posteval", "trained"} =>
    \A k \in 1..Len(asm_train) : Strip(asm_train[k].text) # <<>>

(***************************************************************************)
(* C13: in every assembler run the noise augmenter is called on the text   *)
(* of every record of the training corpus before the corpus is handed to   *)
(* the trainer: the texts given to the augmenter are the texts of the      *)
(* combined corpus, one call per record.                                   *)
(***************************************************************************)
C13_EveryTrainingTextAugmented ==
  asm_pc \in {"posteval", "trained"} =>
    asm_aug_in = [k \in 1..Len(asm_combined) |-> asm_combined[k].text]

(***************************************************************************)
(* C14: the assembler concatenates the records of all enabled sources,     *)
(* shuffles the whole combination with the fixed seed and only then        *)
(* truncates: with a maximum sample count M and N combined records the     *)
(* training corpus is the first min(M, N) records of the shuffled          *)
(* combination, no source is cut before concatenation, and the split is    *)
(* drawn with the fixed seed too.  Records are compared by label, the      *)
(* texts of train_deberta being augmented in between.                      *)
(***************************************************************************)
UncutCombination ==
  IF IsTrainer THEN asm_combined
  ELSE Flatten([k \in 1..Len(StmTrainFiles(asm_env)) |->
                  Repeat(ReadStm(StmTrainFiles(asm_env)[k]), DebertaOversample)])
         \o parse_wi_corpus(asm_env.wi)

LabelsOf(records) == [k \in 1..Len(records) |-> records[k].label]

C14_ShuffledThenTruncated ==
  /\ asm_pc \in {"split", "posteval", "trained"} =>
       \A shuffled \in {Shuffled(UncutCombination, ShuffleSeed)} :
         LabelsOf(asm_dataset) =
           LabelsOf(IF asm_cfg.max_samples # 0 THEN FirstN(shuffled, asm_cfg.max_samples)
                    ELSE shuffled)
  /\ asm_pc \in {"posteval", "trained"} =>
       asm_train = TrainTestSplit(asm_dataset,
                                  IF IsTrainer THEN TrainerTestPct ELSE DebertaTestPct,
                                  ShuffleSeed).train

(***************************************************************************)
(* C15: a chunk returned by chunk_text has more than max_words words only  *)
(* if it is a single sentence unit of the document, emitted whole and on   *)
(* its own; every chunk of two or more sentence units has at most          *)
(* max_words words.  A 120-word single-sentence document with the default  *)
(* bounds yields exactly one chunk, of 120 words.                          *)
(***************************************************************************)
\* the number of sentence units in a chunk: one more than its sentence ends
\* followed by whitespace
UnitsOf(c) ==
  1 + Cardinality({i \in 2..Len(c) : c[i] \in Whitespace /\ c[i - 1] \in SentenceEnd})

\* the sentence units of a document that have a word
DocUnits(doc) == SelectSeq(ReSplitSentences(doc), LAMBDA u : SplitWords(u) # <<>>)

C15_OnlySingleSentenceExceedsMax ==
  chunk_pc = "done" =>
    /\ \A k \in 1..Len(chunk_out) :
         /\ WordCount(chunk_out[k]) > chunk_max =>
              UnitsOf(chunk_out[k]) = 1 /\ chunk_out[k] \in Range(DocUnits(chunk_doc))
         /\ UnitsOf(chunk_out[k]) >= 2 => WordCount(chunk_out[k]) <= chunk_max
    /\ (chunk_doc = SentencesDoc(120, 1) /\ chunk_max = 50) =>
         Len(chunk_out) = 1 /\ WordCount(chunk_out[1]) = 120

\* the 120-word sentence, returned as the only chunk
C15_Witness ==
  /\ chunk_pc = "done"
  /\ chunk_doc = SentencesDoc(120, 1)
  /\ chunk_max = 50
  /\ chunk_out = <<chunk_doc>>

(***************************************************************************)
(* C16: chunk_text groups sentences greedily.  The groups it builds are    *)
(* consecutive runs of the document's sentence units, joined by single     *)
(* spaces, and each run but the last is maximal: adding the sentence that  *)
(* follows it would exceed max_words.  The returned chunks are among these *)
(* groups.  Six 20-word sentences with the default bounds yield three      *)
(* chunks of two sentences, 40 words each.                                 *)
(***************************************************************************)
SortedSeq(S) ==
  [k \in 1..Cardinality(S) |-> CHOOSE x \in S : Cardinality({y \in S : y < x}) = k - 1]

\* the runs of units cut after the positions in cuts
RunsOf(units, cuts) ==
  LET starts == SortedSeq({1} \cup {c + 1 : c \in cuts})
      ends == SortedSeq(cuts \cup {Len(units)})
  IN [k \in 1..Len(starts) |-> SubSeq(units, starts[k], ends[k])]

C16_GroupsAreMaximalRuns ==
  chunk_pc = "done" =>
    /\ \A units \in {DocUnits(chunk_doc)} :
         IF units = <<>> THEN chunk_valid = <<>>
         ELSE \E cuts \in SUBSET (1..(Len(units) - 1)) :
                /\ chunk_valid = [k \in 1..(Cardinality(cuts) + 1) |->
                                    Join(RunsOf(units, cuts)[k], <<" ">>)]
                /\ \A c \in cuts :
                     \E k \in 1..Cardinality(cuts) :
                       /\ Len(Flatten(SubSeq(RunsOf(units, cuts), 1, k))) = c
                       /\ WordCount(chunk_valid[k]) + WordCount(units[c + 1]) > chunk_max
    /\ \A k \in 1..Len(chunk_out) : chunk_out[k] \in Range(chunk_valid)
    /\ (chunk_doc = SentencesDoc(20, 6) /\ chunk_min = 5 /\ chunk_max = 50) =>
         /\ Len(chunk_out) = 3
         /\ \A k \in 1..3 : WordCount(chunk_out[k]) = 40 /\ UnitsOf(chunk_out[k]) = 2

\* the six 20-word sentences, returned two by two
C16_Witness ==
  /\ chunk_pc = "done"
  /\ chunk_doc = SentencesDoc(20, 6)
  /\ chunk_min = 5 /\ chunk_max = 50
  /\ Len(chunk_out) = 3

(***************************************************************************)
(* C17: in load_universal_cefr, for every row with a valid level and a     *)
(* non-blank text: a text of fewer than min_words words gives no record,   *)
(* a text of more than max_words words gives exactly the records of the    *)
(* chunks chunk_text returns for it with the same bounds, a text in        *)
(* between gives exactly one record with the row's text unchanged.  All    *)
(* records of a row carry the row's label and the tag of the dataset.      *)
(* Stated on the entries a dataset contributes, rows without a valid       *)
(* level or text giving nothing.                                           *)
(***************************************************************************)
\* cefr_ followed by what comes after the last slash of the dataset name
DatasetTag(name) ==
  LET slashes == {i \in 1..Len(name) : name[i] = "/"}
      last == IF slashes = {} THEN 0 ELSE CHOOSE i \in slashes : \A j \in slashes : j <= i
  IN <<"c", "e", "f", "r", "_">> \o SubSeq(name, last + 1, Len(name))

NonBlankText(cell) == cell.str /\ \E i \in 1..Len(cell.val) : cell.val[i] \notin Whitespace

ExpectedUcRow(k, row, min_words, max_words) ==
  LET lab == UcLabel(DATASET_CONFIGS[k], row.level)
      tag == DatasetTag(DATASET_CONFIGS[k].name)
      n == WordCount(row.text.val)
  IN IF ~NonBlankText(row.text) \/ lab.outcome # "label" THEN <<>>
     ELSE IF n < min_words THEN <<>>
     ELSE IF n > max_words
          THEN LET chunks == chunk_text(row.text.val, min_words, max_words)
               IN [j \in 1..Len(chunks) |->
                     [text |-> chunks[j], label |-> lab.label, source |-> tag]]
     ELSE <<[text |-> row.text.val, label |-> lab.label, source |-> tag]>>

\* load_dataset raises, the iteration raises, or a row with an infinite
\* numeric level makes int() raise OverflowError
UcDatasetFails(k, dataset) ==
  \/ ~dataset.ok
  \/ ~dataset.iter_ok
  \/ /\ DATASET_CONFIGS[k].level_is_numeric
     /\ \E i \in 1..Len(dataset.rows) :
          NonBlankText(dataset.rows[i].text) /\ dataset.rows[i].level.kind = "inf"

C17_RowsByWordCount ==
  (uc_pc \in {"load", "finish"} /\ uc_k > 1 /\ ~UcDatasetFails(uc_k - 1, uc_dataset)) =>
    uc_entries = Flatten([i \in 1..Len(uc_dataset.rows) |->
                            ExpectedUcRow(uc_k - 1, uc_dataset.rows[i],
                                          uc_args.min_words, uc_args.max_words)])

\* a row of more words than max_words that gave two chunk records, and a
\* call where a row of exactly min_words words gave one
C17_Witness ==
  /\ uc_pc = "finish"
  /\ Len(uc_dataset.rows) = 1
  /\ Len(uc_entries) = 2
  /\ \E i \in 1..Len(uc_all_entries) :
       WordCount(uc_all_entries[i].text) = uc_args.min_words

(***************************************************************************)
(* C18: each configured dataset is attempted in turn; a failure while      *)
(* loading or iterating one dataset does not abort the adapter or keep the *)
(* later datasets from being attempted, the records collected from earlier *)
(* datasets are kept, and the failing dataset contributes no record.       *)
(***************************************************************************)
IsPrefix(a, b) == Len(a) <= Len(b) /\ SubSeq(b, 1, Len(a)) = a

C18_DatasetFailureIsLocal ==
  [][uc_pc = "load" =>
       /\ uc_k' = uc_k + 1
       /\ uc_pc' = IF uc_k < Len(DATASET_CONFIGS) THEN "load" ELSE "finish"
       /\ IsPrefix(uc_all_entries, uc_all_entries')
       /\ UcDatasetFails(uc_k, uc_dataset') => uc_all_entries' = uc_all_entries]_vars

\* the second dataset failed between two datasets that gave records
C18_Witness ==
  /\ uc_pc = "finish"
  /\ \E m \in Range(uc_log) : m.msg = "loaded" /\ m.k = 1
  /\ \E m \in Range(uc_log) : m.msg = "failed" /\ m.k = 2
  /\ \E m \in Range(uc_log) : m.msg = "loaded" /\ m.k = 3
  /\ Len(uc_all_entries) >= 2

(***************************************************************************)
(* C19: parse_wi_corpus emits, for every row whose text is a non-blank     *)
(* string and whose normalised level is a recognised level, one record per *)
(* chunk that chunk_text returns for the row's text, in chunk order, each  *)
(* with the row's label id and source "wi"; a row with missing or blank    *)
(* text or an unmapped level emits nothing; rows are taken in file order.  *)
(***************************************************************************)
ExpectedWiRow(row) ==
  LET level == row.automarker_cefr_level
  IN IF /\ NonBlankText(row.text)
        /\ level.str
        /\ NormalisedLevel(level.val) \in DOMAIN LABEL2ID
     THEN LET chunks == chunk_text(row.text.val, DefaultMinWords, DefaultMaxWords)
          IN [j \in 1..Len(chunks) |->
                [text |-> chunks[j], label |-> LABEL2ID[NormalisedLevel(level.val)],
                 source |-> "wi"]]
     ELSE <<>>

C19_OneRecordPerChunkOfEachRow ==
  (wi_pc = "done" /\ wi_file.exists /\ wi_file.readable) =>
    wi_returned = Flatten([i \in 1..Len(wi_file.rows) |-> ExpectedWiRow(wi_file.rows[i])])

\* a two-chunk row followed by a one-chunk row of another level
C19_Witness ==
  /\ wi_pc = "done"
  /\ Len(wi_file.rows) = 2
  /\ Len(wi_returned) = 3
  /\ wi_returned[1].label = wi_returned[2].label
  /\ wi_returned[2].label # wi_returned[3].label
  /\ WordCount(wi_returned[1].text) > WordCount(wi_returned[3].text)

\* the enabled sources of the run that are unavailable, by the name a
\* diagnostic would give them
UnavailableSources ==
  (IF asm_cfg.use_stm
   THEN {StmFileNames[k] : k \in {j \in 1..3 :
           ~FileOpens(<<asm_env.train, asm_env.dev, asm_env.eval>>[j])}}
   ELSE {})
  \cup (IF asm_cfg.use_wi /\ (~asm_env.wi.exists \/ ~asm_env.wi.readable) THEN {"wi"} ELSE {})
  \cup (IF asm_cfg.use_hf /\ ~asm_env.hf.ok THEN {"hf"} ELSE {})

\* C20: when a source is unavailable (a speech file missing or unreadable, the
\* written-corpus file missing or unparseable, the remote dataset not fetched),
\* the run does not raise on opening it, the source contributes no record, and
\* by the end of the run a diagnostic names every unavailable source.
C20_UnavailableSourceSkippedAndReported ==
  /\ asm_error # "open"
  /\ asm_pc \in {"trained", "failed"} =>
       \A src \in UnavailableSources : \E i \in 1..Len(asm_diag) : asm_diag[i].source = src
(***************************************************************************)
(* C21: the three sources can be switched off independently in the         *)
(* assembler.  The entry point that runs admits every combination of the   *)
(* three flags, and once the sources are loaded a source whose flag is off *)
(* has left no record with its tag in the corpus and was not read: no      *)
(* record was parsed from its files and no diagnostic names it.            *)
(***************************************************************************)
SourceFlags == {"use_stm", "use_wi", "use_hf"}

SourceTag == [use_stm |-> "stm", use_wi |-> "wi", use_hf |-> "hf"]

\* the source a diagnostic is about
DiagOrigin(d) == IF d.source \in Range(StmFileNames) THEN "stm" ELSE d.source

\* the calls the signature of the running entry point admits
CallsOfVariant == {cfg \in AsmCfgs : cfg.variant = asm_cfg.variant}

C21_SourcesSwitchOffIndependently ==
  /\ \A setting \in [SourceFlags -> BOOLEAN] :
       \E cfg \in CallsOfVariant : \A flag \in SourceFlags : cfg[flag] = setting[flag]
  /\ asm_pc \notin {"stm", "wi", "hf"} =>
       \A flag \in SourceFlags :
         ~asm_cfg[flag] =>
           /\ \A rec \in Range(AssembledRecords) \cup Range(asm_dataset) \cup Range(asm_train) :
                rec.source # SourceTag[flag]
           /\ \A k \in 1..Len(asm_diag) : DiagOrigin(asm_diag[k]) # SourceTag[flag]
           /\ flag = "use_stm" => asm_stm_parsed = <<>> /\ asm_eval_entries = <<>>

\* C21 restricted to train_model and train of train_cefr_minilm.py, whose
\* three flags are parameters
C21_TrainModelFlags ==
  IsTrainer => C21_SourcesSwitchOffIndependently
(***************************************************************************)
(* C22: parse_stm_file uses only the first bracketed group of a line as    *)
(* metadata.  Every record has the id of a level field of the first group  *)
(* of its line and, as text, everything after that group's closing bracket *)
(* (later groups and literal angle brackets included), trimmed; a line     *)
(* whose first group has no level field gives no record, whatever its      *)
(* later groups hold.                                                      *)
(***************************************************************************)
LinesWithGroup(content) ==
  LET lines == SplitOn(content, "\n")
  IN {Strip(lines[k]) : k \in {j \in 1..Len(lines) : GroupsOf(Strip(lines[j])) # {}}}

LevelFieldsOfFirstGroup(l) ==
  {f \in Range(FieldsOfGroup(l, FirstGroupOf(l))) : f \in StmLevelTokens}

TextAfterFirstGroup(l) == Strip(SubSeq(l, FirstGroupOf(l)[2] + 1, Len(l)))

C22_OnlyFirstGroupIsMetadata ==
  stm_pc = "done" =>
    /\ \A rec \in Range(stm_entries) :
         \E l \in LinesWithGroup(stm_content) :
           /\ rec.text = TextAfterFirstGroup(l)
           /\ \E f \in LevelFieldsOfFirstGroup(l) : rec.label = LevelIdOf(f)
    /\ (\A l \in LinesWithGroup(stm_content) : LevelFieldsOfFirstGroup(l) = {}) =>
         stm_entries = <<>>

\* <B2> hi <C2> yo: the second group is part of the text
C22_Witness ==
  /\ stm_pc = "done"
  /\ stm_content = <<"<", "B", "2", ">", " ", "h", "i", " ", "<", "C", "2", ">", " ", "y", "o">>
  /\ stm_entries = <<[text |-> <<"h", "i", " ", "<", "C", "2", ">", " ", "y", "o">>,
                      label |-> 3, source |-> "stm"]>>
(***************************************************************************)
(* C23: with the speech and the written source enabled, the remote source  *)
(* disabled and no sample cap, the corpus assembled before shuffling holds *)
(* exactly one "stm" record per valid labelled line of the speech training *)
(* files and one "wi" record per valid written-corpus row of under 50      *)
(* words, and nothing else; every record handed to the trainer still       *)
(* carries its source tag.                                                 *)
(***************************************************************************)
ValidWiRows(file) ==
  IF file.exists /\ file.readable
  THEN {k \in 1..Len(file.rows) :
          /\ ExpectedWiRow(file.rows[k]) # <<>>
          /\ WordCount(file.rows[k].text.val) < DefaultMaxWords}
  ELSE {}

ValidStmLines == ExpectedStmFile(asm_env.train[1]) \o ExpectedStmFile(asm_env.dev[1])

C23_OneRecordPerLineAndRow ==
  /\ ( /\ asm_pc = IF IsTrainer THEN "shuffle" ELSE "augment"
       /\ asm_cfg.use_stm /\ asm_cfg.use_wi /\ ~asm_cfg.use_hf /\ asm_cfg.max_samples = 0
       /\ FileOpens(asm_env.train) /\ FileOpens(asm_env.dev) ) =>
       /\ Len(SelectSeq(asm_combined, LAMBDA r : r.source = "stm")) = Len(ValidStmLines)
       /\ Len(SelectSeq(asm_combined, LAMBDA r : r.source = "wi"))
            = Cardinality(ValidWiRows(asm_env.wi))
       /\ \A r \in Range(asm_combined) : r.source \in {"stm", "wi"}
  /\ asm_pc = "trained" =>
       \A r \in Range(asm_train) : "source" \in DOMAIN r /\ r.source \in {"stm", "wi", "hf"}
(***************************************************************************)
(* C24: on the perturbing branch each pass of the loop takes one draw r    *)
(* and applies at most one action to its word: the word contributes        *)
(* nothing (only a word of fewer than 4 characters), or exactly one output *)
(* word, which is the word itself, the word with one adjacent pair of      *)
(* characters transposed (only a word of more than 3 characters) or the    *)
(* word with exactly one character removed (only a word of more than 4).   *)
(* The output words so far follow input order and are never more than the  *)
(* words read.                                                             *)
(***************************************************************************)
WithPairTransposed(w, i) ==
  [k \in 1..Len(w) |-> IF k = i THEN w[i + 1] ELSE IF k = i + 1 THEN w[i] ELSE w[k]]

WithoutCharAt(w, i) == [k \in 1..(Len(w) - 1) |-> IF k < i THEN w[k] ELSE w[k + 1]]

\* what the pass over aug_words[aug_i] has appended
AddedByPass == SubSeq(aug_new_words', Len(aug_new_words) + 1, Len(aug_new_words'))

WordPass == aug_pc = "words" /\ aug_i' = aug_i + 1

C24_OneActionPerWord ==
  [][WordPass =>
       LET word == aug_words[aug_i]
           added == AddedByPass
       IN /\ IsPrefix(aug_new_words, aug_new_words')
          /\ Len(aug_new_words') <= aug_i
          /\ aug_r' \in DrawBuckets
          /\ Len(added) <= 1
          /\ added = <<>> => Len(word) < 4
          /\ added # <<>> =>
               \/ added[1] = word
               \/ Len(word) > 3 /\ \E i \in 1..(Len(word) - 1) :
                                      added[1] = WithPairTransposed(word, i)
               \/ Len(word) > 4 /\ \E i \in 1..Len(word) :
                                      added[1] = WithoutCharAt(word, i)]_vars

\* audio has lost its u: adio
C24_Witness ==
  /\ aug_pc = "words" /\ aug_i = 2 /\ aug_action = "delete"
  /\ aug_words[1] = <<"a", "u", "d", "i", "o">>
  /\ aug_new_words = <<<<"a", "d", "i", "o">>>>

(***************************************************************************)
(* C25 (as claimed): every mutation is at an internal position, so a       *)
(* mutated word begins with the first and ends with the last character of  *)
(* the original word.                                                      *)
(***************************************************************************)
C25_MutationsAreInternal ==
  [][(WordPass /\ aug_action' \in {"swap", "delete"}) =>
       LET word == aug_words[aug_i]
           mutated == AddedByPass[1]
       IN /\ mutated[1] = word[1]
          /\ mutated[Len(mutated)] = word[Len(word)]]_vars

\* C25 (as the code has it): the deletion rule removes a character strictly
\* between the first and the last, so the word keeps both; the transposition
\* rule swaps the pair at index idx and idx + 1 for any idx from 0 to
\* len - 2, the first and the last pair included, so the mutated word has
\* the characters of the original but may begin or end differently.
C25_DeletionInternalSwapAnywhere ==
  [][WordPass =>
       LET word == aug_words[aug_i]
           n == Len(word)
           mutated == AddedByPass[1]
       IN /\ aug_action' = "delete" =>
               /\ aug_idx' \in 1..(n - 2)
               /\ mutated = WithoutCharAt(word, aug_idx' + 1)
               /\ mutated[1] = word[1] /\ mutated[n - 1] = word[n]
          /\ aug_action' = "swap" =>
               /\ aug_idx' \in 0..(n - 2)
               /\ mutated = WithPairTransposed(word, aug_idx' + 1)]_vars

\* word has become owrd: the swap at index 0 changed the first character
C25_Witness ==
  /\ aug_pc = "words" /\ aug_i = 2 /\ aug_action = "swap" /\ aug_idx = 0
  /\ aug_words[1] = <<"w", "o", "r", "d">>
  /\ aug_new_words = <<<<"o", "w", "r", "d">>>>
(***************************************************************************)
(* C26: the helpers other files define for themselves are equivalent to    *)
(* those of cefr_utils.py.  On every input parse_stm_file, chunk_text and  *)
(* parse_wi_corpus of train_cefr_minilm.py return the sequence the shared  *)
(* function returns, augment_text_with_noise of train_cefr_deberta.py      *)
(* returns the same text for the same draws, and parse_stm_file of         *)
(* analyze_data.py accepts the same lines, in the same order, with the     *)
(* same levels.                                                            *)
(***************************************************************************)
C26_CopiesAgreeWithSharedModule ==
  dup_pc = "done" =>
    IF dup_fn = "analyze_data"
    THEN /\ Len(dup_copy) = Len(dup_shared)
         /\ \A k \in 1..Len(dup_copy) :
              /\ dup_copy[k].label \in DOMAIN LABEL2ID
              /\ LABEL2ID[dup_copy[k].label] = dup_shared[k].label
              /\ dup_copy[k].length = WordCount(dup_shared[k].text)
    ELSE dup_copy = dup_shared

\* both augmenters have removed an inner character of audio
C26_Witness ==
  /\ dup_pc = "done" /\ dup_fn = "augment_text_with_noise"
  /\ dup_input = <<"a", "u", "d", "i", "o">>
  /\ dup_shared = <<"a", "u", "d", "o">>
  /\ dup_copy = dup_shared
====
